---- MODULE Spec2Model ----
(***************************************************************************)
(* A model of DiskDataset (src/utils/datatset/diskdataset.py): the sharded *)
(* on-disk dataset, its metadata index, its structural operations and its  *)
(* batch iterator.                                                         *)
(*                                                                         *)
(* A row of a shard is carried by four parallel arrays X, y, w, ids.  The  *)
(* model writes an array as a sequence of integers, one per row.  Python's *)
(* None (an absent array) and a file that does not exist are two reserved  *)
(* sequences, so that every array-valued slot has one type.                *)
(***************************************************************************)
EXTENDS Integers, Sequences, FiniteSets, TLC

\* ------------------------------------------------------------------ bounds
MaxShards == 3
MaxRows == 3
PartialMaxShards == 2
BatchMaxShards == 2
BatchMaxRows == 5
MaxBatchSize == 3
IndexMaxRows == 2
MaxPipeline == 3
MaxBalRows == 3
MaxCdfRows == 3
MergeMaxRows == 2
MaxMerge == 2
MaxRtRows == 2
MaxIters == 2
MaxRefRows == 3
MaxBins == 3

\* ------------------------------------------------- values and small helpers
None == <<-1>>
NoFile == <<-2>>
NullRef == -1
Raised == <<-3>>

Max2(a, b) == IF a >= b THEN a ELSE b
\* the shard numbers n of the basenames "shard-<n>" that can occur
Names == 0..(Max2(MaxShards, Max2(PartialMaxShards, BatchMaxShards)) - 1)
\* batch_size=None
NoBatchSize == -1
TaskList == <<"task">>

Xof(r) == r
yof(r) == r
wof(r) == r + 10
idof(r) == r

RECURSIVE SumSeq(_)
SumSeq(s) == IF s = <<>> THEN 0 ELSE Head(s) + SumSeq(Tail(s))

RECURSIVE Concat(_)
Concat(ss) == IF ss = <<>> THEN <<>> ELSE Head(ss) \o Concat(Tail(ss))

Range(s) == {s[i] : i \in DOMAIN s}

Perms(n) == {p \in [1..n -> 1..n] : \A i, j \in 1..n : p[i] = p[j] => i = j}

\* a[perm] : numpy fancy indexing with a permutation (1-based here); one
\* element per index, and an IndexError when an index is past the end of a
Permute(a, p) == [i \in 1..Len(p) |-> a[p[i]]]
IndexError(a, p) == \E i \in DOMAIN p : p[i] > Len(a)

\* a[inds] : numpy fancy indexing with 0-based indices
Take(a, inds) == [k \in 1..Len(inds) |-> a[inds[k] + 1]]

\* a[lo:hi] : numpy slicing with 0-based bounds, clipped to the array
Slice(a, lo, hi) ==
  LET h == IF hi < Len(a) THEN hi ELSE Len(a)
  IN IF lo >= h THEN <<>> ELSE SubSeq(a, lo + 1, h)

RECURSIVE SortedSeq(_)
SortedSeq(S) ==
  IF S = {} THEN <<>>
  ELSE LET m == CHOOSE x \in S : \A z \in S : x <= z
       IN <<m>> \o SortedSeq(S \ {m})

CeilDiv(a, b) == (a + b - 1) \div b

\* ------------------------------------------------------- shard sources
\* The raw (X, y, w, ids) tuples handed to create_dataset / add_shard.
\* kind "full": all four arrays; "no_w": w is None; "unlabelled": y and w None.
Tuple(first, n, kind) ==
  [X   |-> [j \in 1..n |-> Xof(first + j - 1)],
   y   |-> IF kind = "unlabelled" THEN None ELSE [j \in 1..n |-> yof(first + j - 1)],
   w   |-> IF kind = "full" THEN [j \in 1..n |-> wof(first + j - 1)] ELSE None,
   ids |-> [j \in 1..n |-> idof(first + j - 1)]]

SizeSeqs(S, R) ==
  UNION {{s \in [1..k -> 0..R] : SumSeq(s) <= R} : k \in 0..S}

MakeSource(sizes, kinds) ==
  [i \in 1..Len(sizes) |->
     Tuple(1 + SumSeq(SubSeq(sizes, 1, i - 1)), sizes[i], kinds[i])]

LabelledSources(S, R) ==
  {MakeSource(s, [i \in 1..Len(s) |-> "full"]) : s \in SizeSeqs(S, R)}

\* every shard of the source of the same kind
UniformSources(S, R) ==
  UNION {{MakeSource(s, [i \in 1..Len(s) |-> kind]) : kind \in {"full", "no_w", "unlabelled"}}
         : s \in SizeSeqs(S, R)}

AnySources(S, R) ==
  UNION {{MakeSource(s, k) : k \in [1..Len(s) -> {"full", "no_w", "unlabelled"}]}
         : s \in SizeSeqs(S, R)}

\* ------------------------------------------------------------------ state
VARIABLES
  files,        \* the dataset directory: basename -> the four array files
  disk_meta,    \* metadata.joblib in the dataset directory
  tasks,        \* self.tasks of the live handle
  metadata_df,  \* self.metadata_df of the live handle
  derived,      \* the dataset returned by the last deriving call (select)
  last,         \* the last call made and its arguments
  pre,          \* the state the last call started from
  it,           \* the state of one iterbatches generator
  tr,           \* a transformer, the arrays it is applied to and the result
  step          \* the position of a structural call that is under way

vars == <<files, disk_meta, tasks, metadata_df, derived, last, pre, it, tr, step>>

EmptyFiles == [X |-> NoFile, y |-> NoFile, w |-> NoFile, ids |-> NoFile]
EmptyDir == [n \in Names |-> EmptyFiles]
NoMeta == [exists |-> FALSE, tasks |-> <<>>, metadata_df |-> <<>>]
NoDerived == [exists |-> FALSE, files |-> EmptyDir, tasks |-> <<>>, metadata_df |-> <<>>,
              disk_meta |-> NoMeta]
IdleIt == [pc |-> "idle"]
NoTr == [pc |-> "none"]
NoStep == [pc |-> "idle"]

Snapshot == [files |-> files, disk_meta |-> disk_meta, tasks |-> tasks,
             metadata_df |-> metadata_df]

\* ------------------------------------------------------------ ShardStore
\* write_data_to_disk: saves each array that is not None under
\* "<basename>-<field>.joblib" and returns the metadata row.
write_data_to_disk(dir, basename, t, X, y, w, ids) ==
  [files |-> [dir EXCEPT ![basename] =
                [X   |-> IF X # None THEN X ELSE @.X,
                 y   |-> IF y # None THEN y ELSE @.y,
                 w   |-> IF w # None THEN w ELSE @.w,
                 ids |-> IF ids # None THEN ids ELSE @.ids]],
   row |-> [basename   |-> basename,
            task_names |-> t,
            ids |-> IF ids # None THEN basename ELSE NullRef,
            X   |-> IF X # None THEN basename ELSE NullRef,
            y   |-> IF y # None THEN basename ELSE NullRef,
            w   |-> IF w # None THEN basename ELSE NullRef]]

ones(y) == IF y = None THEN Raised ELSE [i \in 1..Len(y) |-> 1]

\* get_shard_w with the recovery for a missing weights file left out
get_shard_w_none(dir, row, y) ==
  IF row.w # NullRef
  THEN IF dir[row.w].w # NoFile THEN dir[row.w].w ELSE None
  ELSE None

\* get_shard_w: the weights branch of get_shard (lines 489-497)
get_shard_w(dir, row, y) ==
  IF row.w # NullRef
  THEN IF dir[row.w].w # NoFile THEN dir[row.w].w ELSE ones(y)
  ELSE None

\* get_shard(i): i is 0-based, as in the source
get_shard(dir, meta, i) ==
  LET row == meta[i + 1]
      X == dir[row.X].X
      y == IF row.y # NullRef THEN dir[row.y].y ELSE None
      w == get_shard_w(dir, row, y)
      ids == dir[row.ids].ids
  IN [X |-> X, y |-> y, w |-> w, ids |-> ids]

\* itershards.iterate: one element per metadata row, in index order
iterate_row(dir, row) ==
  LET X == dir[row.X].X
      ids == dir[row.ids].ids
      y == IF row.y # NullRef THEN dir[row.y].y ELSE None
      w == IF row.w # NullRef
           THEN IF dir[row.w].w # NoFile THEN dir[row.w].w ELSE ones(y)
           ELSE None
  IN [X |-> X, y |-> y, w |-> w, ids |-> ids]

itershards(dir, meta) == [k \in 1..Len(meta) |-> iterate_row(dir, meta[k])]

\* __len__: sums the length of every shard's ids file
len(dir, meta) == SumSeq([k \in 1..Len(meta) |-> Len(dir[meta[k].ids].ids)])

\* write_shards with every new metadata row put in front of the earlier ones
RECURSIVE write_shards_prepend(_, _, _, _, _)
write_shards_prepend(dir, rows, src, shard_num, t) ==
  IF shard_num >= Len(src) THEN [files |-> dir, rows |-> rows]
  ELSE LET s == src[shard_num + 1]
           r == write_data_to_disk(dir, shard_num, t, s.X, s.y, s.w, s.ids)
       IN write_shards_prepend(r.files, <<r.row>> \o rows, src, shard_num + 1, t)

\* --------------------------------------------------------- create_dataset
\* Writes tuple number shard_num (0-based) as "shard-<shard_num>", builds the
\* metadata in arrival order and saves it; the handle returned is opened
\* from the saved metadata (DiskDataset.__init__).
RECURSIVE write_shards(_, _, _, _, _)
write_shards(dir, rows, src, shard_num, t) ==
  IF shard_num >= Len(src) THEN [files |-> dir, rows |-> rows]
  ELSE LET s == src[shard_num + 1]
           r == write_data_to_disk(dir, shard_num, t, s.X, s.y, s.w, s.ids)
       IN write_shards(r.files, Append(rows, r.row), src, shard_num + 1, t)

DiskDataset__init__(dir, dm) ==
  [exists |-> dm.exists, files |-> dir, tasks |-> dm.tasks,
   metadata_df |-> dm.metadata_df, disk_meta |-> dm]

create_dataset(src, dir, t) ==
  LET r == write_shards(dir, <<>>, src, 0, t)
      dm == [exists |-> TRUE, tasks |-> t, metadata_df |-> r.rows]
  IN DiskDataset__init__(r.files, dm)


\* ------------------------------------------------------------- reading rows
\* One row of a shard as the tuple (X, y, w, id); an absent array gives -1,
\* an array too short for the row gives -9.
Cell(a, i) == IF a = None THEN -1 ELSE IF i <= Len(a) THEN a[i] ELSE -9
RowsOf(sh) == [i \in 1..Len(sh.X) |-> <<sh.X[i], Cell(sh.y, i), Cell(sh.w, i), Cell(sh.ids, i)>>]

\* Every shard of a dataset, in index order, as sequences of rows
ShardRows(dir, meta) == [k \in 1..Len(meta) |-> RowsOf(get_shard(dir, meta, k - 1))]
AllRows(dir, meta) == Concat(ShardRows(dir, meta))

\* The multiset of the elements of a sequence, as a function value -> count
CountIn(s, v) == Cardinality({i \in DOMAIN s : s[i] = v})
SameBag(s, t) == /\ Len(s) = Len(t)
                 /\ \A v \in Range(s) \cup Range(t) : CountIn(s, v) = CountIn(t, v)

Labelled(meta) == \A k \in DOMAIN meta : meta[k].y # NullRef /\ meta[k].w # NullRef

\* save_to_disk (the method): persists (self.tasks, self.metadata_df)
save_to_disk(t, meta) == [exists |-> TRUE, tasks |-> t, metadata_df |-> meta]

\* --------------------------------------------------------------- reshard
\* get_data_shape raises on an empty index, and on a first shard without rows
\* (it reads element 0 of the first shard's X).
get_data_shape_raises(dir, meta) ==
  \/ Len(meta) = 0
  \/ Len(dir[meta[1].X].X) = 0

\* the loop of reshard.generator as an "if": at most one slice per shard read
reshard_emit_once(next, out, shard_size) ==
  IF Len(next.X) > shard_size
  THEN [next |-> [X   |-> Slice(next.X, shard_size, Len(next.X)),
                  y   |-> Slice(next.y, shard_size, Len(next.y)),
                  w   |-> Slice(next.w, shard_size, Len(next.w)),
                  ids |-> Slice(next.ids, shard_size, Len(next.ids))],
        out |-> Append(out, [X   |-> Slice(next.X, 0, shard_size),
                             y   |-> Slice(next.y, 0, shard_size),
                             w   |-> Slice(next.w, 0, shard_size),
                             ids |-> Slice(next.ids, 0, shard_size)])]
  ELSE [next |-> next, out |-> out]

\* the inner while loop of reshard.generator (lines 153-158)
RECURSIVE reshard_emit(_, _, _)
reshard_emit(next, out, shard_size) ==
  IF Len(next.X) > shard_size
  THEN reshard_emit(
         [X   |-> Slice(next.X, shard_size, Len(next.X)),
          y   |-> Slice(next.y, shard_size, Len(next.y)),
          w   |-> Slice(next.w, shard_size, Len(next.w)),
          ids |-> Slice(next.ids, shard_size, Len(next.ids))],
         Append(out, [X   |-> Slice(next.X, 0, shard_size),
                      y   |-> Slice(next.y, 0, shard_size),
                      w   |-> Slice(next.w, 0, shard_size),
                      ids |-> Slice(next.ids, 0, shard_size)]),
         shard_size)
  ELSE [next |-> next, out |-> out]

\* reshard.generator with each shard stacked in front of the buffer
RECURSIVE reshard_generator_prepend(_, _, _, _, _)
reshard_generator_prepend(shards, k, next, out, shard_size) ==
  IF k > Len(shards)
  THEN Append(out, next)
  ELSE LET sh == shards[k]
           stacked == [X   |-> sh.X \o next.X,
                       y   |-> sh.y \o next.y,
                       w   |-> sh.w \o next.w,
                       ids |-> sh.ids \o next.ids]
           e == reshard_emit(stacked, out, shard_size)
       IN reshard_generator_prepend(shards, k + 1, e.next, e.out, shard_size)

\* reshard.generator: the tuples it yields, for a dataset whose shards all
\* carry labels and weights
RECURSIVE reshard_generator(_, _, _, _, _)
reshard_generator(shards, k, next, out, shard_size) ==
  IF k > Len(shards)
  THEN Append(out, next)
  ELSE LET sh == shards[k]
           stacked == [X   |-> next.X \o sh.X,
                       y   |-> next.y \o sh.y,
                       w   |-> next.w \o sh.w,
                       ids |-> next.ids \o sh.ids]
           e == reshard_emit(stacked, out, shard_size)
       IN reshard_generator(shards, k + 1, e.next, e.out, shard_size)

EmptyTuple == [X |-> <<>>, y |-> <<>>, w |-> <<>>, ids |-> <<>>]

\* ---------------------------------------------------------------- select
\* the while loop that counts the requested indices lying in this shard
\* (lines 548-552); indices is 1-based here, its values are 0-based rows
RECURSIVE num_shard_elts(_, _, _, _)
num_shard_elts(indices, indices_count, num, bound) ==
  IF indices[indices_count + num + 1] < bound
  THEN IF indices_count + num + 1 >= Len(indices)
       THEN num + 1
       ELSE num_shard_elts(indices, indices_count, num + 1, bound)
  ELSE num

\* select.generator: the tuples yielded, and whether indexing an absent
\* array (y or w is None) raised before the generator finished
RECURSIVE select_generator(_, _, _, _, _, _)
select_generator(shards, k, indices, count, indices_count, out) ==
  IF k > Len(shards)
  THEN [out |-> out, raised |-> FALSE]
  ELSE LET sh == shards[k]
           shard_len == Len(sh.X)
           n == num_shard_elts(indices, indices_count, 0, count + shard_len)
           shard_inds == [j \in 1..n |-> indices[indices_count + j] - count]
       IN IF sh.y = None \/ sh.w = None \/ sh.w = Raised
          THEN [out |-> out, raised |-> TRUE]
          ELSE LET sel == [X   |-> Take(sh.X, shard_inds),
                           y   |-> Take(sh.y, shard_inds),
                           w   |-> Take(sh.w, shard_inds),
                           ids |-> Take(sh.ids, shard_inds)]
               IN IF indices_count + n >= Len(indices)
                  THEN [out |-> Append(out, sel), raised |-> FALSE]
                  ELSE select_generator(shards, k + 1, indices, count + shard_len,
                                        indices_count + n, Append(out, sel))

\* select: the derived dataset, or none when the generator raised
select_result(dir, meta, t, index_set) ==
  IF index_set = {}
  THEN create_dataset(<<>>, EmptyDir, <<>>)
  ELSE LET indices == SortedSeq(index_set)
           g == select_generator(itershards(dir, meta), 1, indices, 0, 0, <<>>)
       IN IF g.raised THEN NoDerived
          ELSE create_dataset(g.out, EmptyDir, t)


\* ------------------------------------------------------- shuffles
\* np.random.permutation(n), given the order drawn for the shard: the drawn
\* order restricted to 1..n (the drawn order itself when it has n elements)
permutation_of(drawn, n) ==
  LET kept == SelectSeq(drawn, LAMBDA v : v <= n)
  IN kept \o [k \in 1..(n - Len(kept)) |-> Len(kept) + k]

\* one permutation per shard, each sized to its shard
RECURSIVE PermSeqs(_)
PermSeqs(sizes) ==
  IF sizes = <<>> THEN {<<>>}
  ELSE {<<p>> \o rest : p \in Perms(Head(sizes)), rest \in PermSeqs(Tail(sizes))}

\* shuffle_each_shard writing position i back as "shard-<i>" instead of
\* under the basename of the row
RECURSIVE shuffle_each_shard_by_position(_, _, _, _, _)
shuffle_each_shard_by_position(dir, meta, t, i, perms) ==
  IF i >= Len(meta) THEN dir
  ELSE LET sh == get_shard(dir, meta, i)
           n == Len(sh.X)
           permutation == permutation_of(perms[i + 1], n)
           r == write_data_to_disk(dir, i, t,
                                   Permute(sh.X, permutation), Permute(sh.y, permutation),
                                   Permute(sh.w, permutation), Permute(sh.ids, permutation))
       IN IF \/ IndexError(sh.y, permutation) \/ IndexError(sh.w, permutation)
             \/ IndexError(sh.ids, permutation)
          THEN dir
          ELSE shuffle_each_shard_by_position(r.files, meta, t, i + 1, perms)

\* shuffle_each_shard: the loop over the index positions (lines 461-470);
\* every shard is read, permuted and written back under its own basename.
\* An array shorter than X raises at the indexing: the loop ends there, with
\* the shards before it rewritten.
RECURSIVE shuffle_each_shard_loop(_, _, _, _, _)
shuffle_each_shard_loop(dir, meta, t, i, perms) ==
  IF i >= Len(meta) THEN dir
  ELSE LET row == meta[i + 1]
           basename == row.basename
           sh == get_shard(dir, meta, i)
           n == Len(sh.X)
           permutation == permutation_of(perms[i + 1], n)
           r == write_data_to_disk(dir, basename, t,
                                   Permute(sh.X, permutation), Permute(sh.y, permutation),
                                   Permute(sh.w, permutation), Permute(sh.ids, permutation))
       IN IF \/ IndexError(sh.y, permutation) \/ IndexError(sh.w, permutation)
             \/ IndexError(sh.ids, permutation)
          THEN dir
          ELSE shuffle_each_shard_loop(r.files, meta, t, i + 1, perms)

\* Dataset.sparsify_features / densify_features: a row-wise encoding of the
\* dense feature rows and its inverse
sparsify_features(X) == [i \in 1..Len(X) |-> X[i] + 1000]
densify_features(X_sparse) == [i \in 1..Len(X_sparse) |-> X_sparse[i] - 1000]

\* get_shard_size: the row count of the first shard of the index
get_shard_size(dir, meta) == Len(dir[meta[1].y].y)

\* set_shard: writes the four arrays under "shard-<shard_num>"
set_shard(dir, t, shard_num, X, y, w, ids) ==
  write_data_to_disk(dir, shard_num, t, X, y, w, ids).files

\* sparse_shuffle: the write loop (lines 446-451)
RECURSIVE sparse_shuffle_write(_, _, _, _, _, _)
sparse_shuffle_write(dir, t, i, num_shards, shard_size, all) ==
  IF i >= num_shards THEN dir
  ELSE LET start == i * shard_size
           stop == (i + 1) * shard_size
           X_s == densify_features(Slice(all.X, start, stop))
       IN sparse_shuffle_write(
            set_shard(dir, t, i, X_s, Slice(all.y, start, stop),
                      Slice(all.w, start, stop), Slice(all.ids, start, stop)),
            t, i + 1, num_shards, shard_size, all)

\* sparse_shuffle: the directory after the call, for a non-empty index whose
\* shards all carry labels and weights.  The permutation has one entry per
\* feature row; an array with fewer rows raises before anything is written.
sparse_shuffle_arrays(dir, meta, drawn) ==
  LET num_shards == Len(meta)
      shards == [k \in 1..num_shards |-> get_shard(dir, meta, k - 1)]
      X_sparse == Concat([k \in 1..num_shards |-> sparsify_features(shards[k].X)])
      y == Concat([k \in 1..num_shards |-> shards[k].y])
      w == Concat([k \in 1..num_shards |-> shards[k].w])
      ids == Concat([k \in 1..num_shards |-> shards[k].ids])
      permutation == permutation_of(drawn, Len(X_sparse))
  IN [raised |-> \/ IndexError(y, permutation) \/ IndexError(w, permutation)
                 \/ IndexError(ids, permutation),
      X   |-> Permute(X_sparse, permutation),
      y   |-> IF IndexError(y, permutation) THEN Raised ELSE Permute(y, permutation),
      w   |-> IF IndexError(w, permutation) THEN Raised ELSE Permute(w, permutation),
      ids |-> IF IndexError(ids, permutation) THEN Raised ELSE Permute(ids, permutation)]

sparse_shuffle_result(dir, meta, t, drawn) ==
  LET shard_size == get_shard_size(dir, meta)
      num_shards == Len(meta)
      all == sparse_shuffle_arrays(dir, meta, drawn)
  IN IF all.raised
     THEN dir
     ELSE sparse_shuffle_write(dir, t, 0, num_shards, shard_size, all)

\* sparse_shuffle raises on an empty index (get_shard_size reads the first
\* shard) and when the permutation indexes past the end of y, w or ids
sparse_shuffle_raises(dir, meta, drawn) ==
  \/ Len(meta) = 0
  \/ sparse_shuffle_arrays(dir, meta, drawn).raised

\* ------------------------------------------------------------------ Init
Init ==
  /\ files = EmptyDir
  /\ disk_meta = NoMeta
  /\ tasks = <<>>
  /\ metadata_df = <<>>
  /\ derived = NoDerived
  /\ last = [op |-> "init"]
  /\ pre = [files |-> EmptyDir, disk_meta |-> NoMeta, tasks |-> <<>>, metadata_df |-> <<>>]
  /\ it = IdleIt
  /\ tr = NoTr
  /\ step = NoStep

\* ---------------------------------------------------------------- actions
\* DiskDataset.create_dataset(shard_generator, data_dir, tasks) on a fresh
\* directory
CreateDataset(src) ==
  /\ ~disk_meta.exists
  /\ LET d == create_dataset(src, files, TaskList)
     IN /\ files' = d.files
        /\ disk_meta' = d.disk_meta
        /\ tasks' = d.tasks
        /\ metadata_df' = d.metadata_df
  /\ derived' = NoDerived
  /\ last' = [op |-> "create_dataset", src |-> src]
  /\ pre' = Snapshot
  /\ UNCHANGED <<it, tr, step>>

\* DiskDataset(data_dir): a handle opened from the saved metadata
Reopen ==
  /\ disk_meta.exists
  /\ LET d == DiskDataset__init__(files, disk_meta)
     IN /\ tasks' = d.tasks
        /\ metadata_df' = d.metadata_df
  /\ derived' = NoDerived
  /\ last' = [op |-> "open"]
  /\ pre' = Snapshot
  /\ UNCHANGED <<files, disk_meta, it, tr, step>>

\* the largest row token stored in the directory (0 when there is none)
MaxToken ==
  LET T == (UNION {Range(files[n].ids) \cup Range(files[n].X) \cup Range(files[n].y)
                   \cup {v - 10 : v \in Range(files[n].w)} : n \in Names})
           \cap (1..(MaxRows + 1))
  IN IF T = {} THEN 0 ELSE CHOOSE x \in T : \A z \in T : z <= x

\* add_shard naming the new shard after the last shard of the index
add_shard_last_name(n, kind) ==
  /\ disk_meta.exists
  /\ Len(metadata_df) < MaxShards
  /\ MaxToken + n <= MaxRows
  /\ LET sh == Tuple(MaxToken + 1, n, kind)
         metadata_rows == metadata_df
         shard_num == Max2(Len(metadata_rows) - 1, 0)
         r == write_data_to_disk(files, shard_num, tasks, sh.X, sh.y, sh.w, sh.ids)
     IN /\ files' = r.files
        /\ metadata_df' = Append(metadata_rows, r.row)
        /\ disk_meta' = save_to_disk(tasks, metadata_df')
        /\ last' = [op |-> "add_shard", shard |-> sh]
  /\ derived' = NoDerived
  /\ pre' = Snapshot
  /\ UNCHANGED <<tasks, it, tr, step>>

\* add_shard without the save of the extended index
add_shard_unsaved(n, kind) ==
  /\ disk_meta.exists
  /\ Len(metadata_df) < MaxShards
  /\ MaxToken + n <= MaxRows
  /\ LET sh == Tuple(MaxToken + 1, n, kind)
         metadata_rows == metadata_df
         shard_num == Len(metadata_rows)
         r == write_data_to_disk(files, shard_num, tasks, sh.X, sh.y, sh.w, sh.ids)
     IN /\ files' = r.files
        /\ metadata_df' = Append(metadata_rows, r.row)
        /\ last' = [op |-> "add_shard", shard |-> sh]
  /\ derived' = NoDerived
  /\ pre' = Snapshot
  /\ UNCHANGED <<disk_meta, tasks, it, tr, step>>

add_shard(n, kind) ==
  /\ disk_meta.exists
  /\ Len(metadata_df) < MaxShards
  /\ MaxToken + n <= MaxRows
  /\ LET sh == Tuple(MaxToken + 1, n, kind)
         metadata_rows == metadata_df
         shard_num == Len(metadata_rows)
         r == write_data_to_disk(files, shard_num, tasks, sh.X, sh.y, sh.w, sh.ids)
     IN /\ files' = r.files
        /\ metadata_df' = Append(metadata_rows, r.row)
        /\ disk_meta' = save_to_disk(tasks, metadata_df')
        /\ last' = [op |-> "add_shard", shard |-> sh]
  /\ derived' = NoDerived
  /\ pre' = Snapshot
  /\ UNCHANGED <<tasks, it, tr, step>>

reshard(shard_size) ==
  /\ disk_meta.exists
  /\ Labelled(metadata_df)
  /\ CeilDiv(len(files, metadata_df), shard_size) <= MaxShards
  /\ IF get_data_shape_raises(files, metadata_df)
     THEN /\ last' = [op |-> "reshard", shard_size |-> shard_size, raised |-> TRUE]
          /\ UNCHANGED <<files, disk_meta, metadata_df>>
     ELSE LET gen == reshard_generator(itershards(files, metadata_df), 1, EmptyTuple,
                                       <<>>, shard_size)
              resharded_dataset == create_dataset(gen, EmptyDir, tasks)
          IN /\ files' = resharded_dataset.files
             /\ metadata_df' = resharded_dataset.metadata_df
             /\ disk_meta' = save_to_disk(tasks, metadata_df')
             /\ last' = [op |-> "reshard", shard_size |-> shard_size, raised |-> FALSE]
  /\ derived' = NoDerived
  /\ pre' = Snapshot
  /\ UNCHANGED <<tasks, it, tr, step>>

\* shuffle_shards without the save of the reordered index
shuffle_shards_unsaved(p) ==
  /\ disk_meta.exists
  /\ metadata_df' = Permute(metadata_df, p)
  /\ derived' = NoDerived
  /\ last' = [op |-> "shuffle_shards"]
  /\ pre' = Snapshot
  /\ UNCHANGED <<files, disk_meta, tasks, it, tr, step>>

shuffle_shards(p) ==
  /\ disk_meta.exists
  /\ LET metadata_rows == Permute(metadata_df, p)
     IN /\ metadata_df' = metadata_rows
        /\ disk_meta' = save_to_disk(tasks, metadata_df')
  /\ derived' = NoDerived
  /\ last' = [op |-> "shuffle_shards"]
  /\ pre' = Snapshot
  /\ UNCHANGED <<files, tasks, it, tr, step>>

shuffle_each_shard(perms) ==
  /\ disk_meta.exists
  /\ Labelled(metadata_df)
  /\ files' = shuffle_each_shard_loop(files, metadata_df, tasks, 0, perms)
  /\ derived' = NoDerived
  /\ last' = [op |-> "shuffle_each_shard"]
  /\ pre' = Snapshot
  /\ UNCHANGED <<disk_meta, tasks, metadata_df, it, tr, step>>

sparse_shuffle(permutation) ==
  /\ disk_meta.exists
  /\ Labelled(metadata_df)
  /\ IF sparse_shuffle_raises(files, metadata_df, permutation)
     THEN /\ last' = [op |-> "sparse_shuffle", raised |-> TRUE]
          /\ files' = files
     ELSE /\ last' = [op |-> "sparse_shuffle", raised |-> FALSE]
          /\ files' = sparse_shuffle_result(files, metadata_df, tasks, permutation)
  /\ derived' = NoDerived
  /\ pre' = Snapshot
  /\ UNCHANGED <<disk_meta, tasks, metadata_df, it, tr, step>>

select(index_set) ==
  /\ disk_meta.exists
  /\ derived' = select_result(files, metadata_df, tasks, index_set)
  /\ last' = [op |-> "select", indices |-> index_set]
  /\ pre' = Snapshot
  /\ UNCHANGED <<files, disk_meta, tasks, metadata_df, it, tr, step>>

\* The sizes of the shards as read through the index
ShardSizes == [k \in 1..Len(metadata_df) |-> Len(files[metadata_df[k].X].X)]

Next ==
  \/ \E src \in LabelledSources(MaxShards, MaxRows) : CreateDataset(src)
  \/ Reopen
  \/ \E n \in 0..MaxRows : add_shard(n, "full")
  \/ \E shard_size \in 1..MaxRows : reshard(shard_size)
  \/ \E p \in Perms(Len(metadata_df)) : shuffle_shards(p)
  \/ \E perms \in PermSeqs(ShardSizes) : shuffle_each_shard(perms)

Spec == Init /\ [][Next]_vars

NextSparse ==
  \/ \E src \in LabelledSources(MaxShards, MaxRows) : CreateDataset(src)
  \/ \E n \in 0..MaxRows : add_shard(n, "full")
  \/ \E p \in Perms(Len(metadata_df)) : shuffle_shards(p)
  \/ \E permutation \in Perms(len(files, metadata_df)) : sparse_shuffle(permutation)

SpecSparse == Init /\ [][NextSparse]_vars

TypeOK ==
  /\ DOMAIN files = Names
  /\ last.op \in {"init", "create_dataset", "open", "add_shard", "reshard",
                  "shuffle_shards", "shuffle_each_shard", "sparse_shuffle", "select",
                  "remove_w", "set_shard", "transform", "merge",
                  "get_data_shape", "get_shard_size", "get_shape", "itershards", "next",
                  "subset", "irv"}
  /\ it.pc \in {"idle", "shard", "batch", "done", "gens"}


\* ------------------------------------------- datasets with absent arrays
\* A weights file disappears from the directory while the index still
\* references it (the case get_shard and itershards test with os.path.exists).
RemoveWeightsFile(n) ==
  /\ disk_meta.exists
  /\ files[n].w # NoFile
  /\ files' = [files EXCEPT ![n].w = NoFile]
  /\ derived' = NoDerived
  /\ last' = [op |-> "remove_w", basename |-> n]
  /\ pre' = Snapshot
  /\ UNCHANGED <<disk_meta, tasks, metadata_df, it, tr, step>>

NextPartial ==
  \/ \E src \in AnySources(PartialMaxShards, MaxRows) : CreateDataset(src)
  \/ \E n \in Names : RemoveWeightsFile(n)
  \/ Reopen
  \/ \E index_set \in SUBSET (0..(len(files, metadata_df) - 1)) : select(index_set)

SpecPartial == Init /\ [][NextPartial]_vars

\* select on datasets whose shards all carry labels and weights
NextSelect ==
  \/ \E src \in LabelledSources(MaxShards, MaxRows) : CreateDataset(src)
  \/ \E n \in 0..MaxRows : add_shard(n, "full")
  \/ \E index_set \in SUBSET (0..(len(files, metadata_df) - 1)) : select(index_set)

SpecSelect == Init /\ [][NextSelect]_vars

\* ------------------------------------------------------------ iterbatches
\* Dataset.pad_batch: pads the four arrays of a batch to exactly batch_size
\* rows by wrap-around repetition of its own rows
RECURSIVE pad_fill(_, _, _)
pad_fill(a, out, batch_size) ==
  IF Len(out) >= batch_size THEN out
  ELSE LET num_left == batch_size - Len(out)
           increment == IF num_left < Len(a) THEN num_left ELSE Len(a)
       IN pad_fill(a, out \o SubSeq(a, 1, increment), batch_size)

pad_array(a, batch_size) ==
  IF a = None THEN None
  ELSE IF Len(a) = batch_size THEN a
  ELSE pad_fill(a, <<>>, batch_size)

pad_batch(batch_size, b) ==
  [X |-> pad_array(b.X, batch_size), y |-> pad_array(b.y, batch_size),
   w |-> pad_array(b.w, batch_size), ids |-> pad_array(b.ids, batch_size)]

\* interval_points with one range for the whole shard
interval_points_whole_shard(n_samples, shard_batch_size) == <<0, n_samples>>

\* interval_points with the number of ranges rounded down instead of up
interval_points_floor(n_samples, shard_batch_size) ==
  LET num == (n_samples \div shard_batch_size) + 1
  IN IF num = 1 THEN <<0>>
     ELSE [j \in 1..num |-> ((j - 1) * n_samples) \div (num - 1)]

\* np.linspace(0, n_samples, ceil(n_samples / shard_batch_size) + 1, dtype=int):
\* the points j * n_samples / (num - 1), truncated to integers
interval_points(n_samples, shard_batch_size) ==
  LET num == CeilDiv(n_samples, shard_batch_size) + 1
  IN [j \in 1..num |-> ((j - 1) * n_samples) \div (num - 1)]

\* range(a, b) as a sequence of 0-based indices
RangeSeq(a, b) == [k \in 1..(b - a) |-> a + k - 1]

\* batch_of with the ids taken at the unpermuted indices
batch_of_ids_unpermuted(sh, sample_perm, lo, hi) ==
  LET perm_indices == [k \in 1..(hi - lo) |-> sample_perm[lo + k] - 1]
  IN [X   |-> Take(sh.X, perm_indices),
      y   |-> IF sh.y # None THEN Take(sh.y, perm_indices) ELSE None,
      w   |-> IF sh.w # None THEN Take(sh.w, perm_indices) ELSE None,
      ids |-> Take(sh.ids, RangeSeq(lo, hi))]

\* sample_perm[indices] followed by the slicing of the four arrays
batch_of(sh, sample_perm, lo, hi) ==
  LET perm_indices == [k \in 1..(hi - lo) |-> sample_perm[lo + k] - 1]
  IN [X   |-> Take(sh.X, perm_indices),
      y   |-> IF sh.y # None THEN Take(sh.y, perm_indices) ELSE None,
      w   |-> IF sh.w # None THEN Take(sh.w, perm_indices) ELSE None,
      ids |-> Take(sh.ids, perm_indices)]

Identity(n) == [i \in 1..n |-> i]

\* iterbatches(batch_size, deterministic, pad_batches): the generator object
\* is created; shard_perm is drawn when it first runs (lines 243-247)
iterbatches(batch_size, deterministic, pad_batches, shard_perm) ==
  /\ it.pc = "idle"
  /\ disk_meta.exists
  /\ deterministic => shard_perm = Identity(Len(metadata_df))
  /\ it' = [pc |-> "shard", batch_size |-> batch_size, deterministic |-> deterministic,
            pad_batches |-> pad_batches, shard_perm |-> shard_perm, i |-> 0,
            sample_perm |-> <<>>, points |-> <<>>, j |-> 0,
            batch |-> EmptyTuple, real |-> 0, nbatch |-> 0, yielded |-> <<>>]
  /\ UNCHANGED <<files, disk_meta, tasks, metadata_df, derived, last, pre, tr, step>>

\* the head of the loop over the shards (lines 248-268): loads the next
\* shard, skips it when empty, else draws sample_perm and the interval points;
\* the loop over the ranges is entered when there is at least one range
iterate_shard(sample_perm) ==
  /\ it.pc = "shard"
  /\ IF it.i >= Len(metadata_df)
     THEN it' = [it EXCEPT !.pc = "done"]
     ELSE LET sh == get_shard(files, metadata_df, it.shard_perm[it.i + 1] - 1)
              n_samples == Len(sh.X)
              shard_batch_size == IF it.batch_size = NoBatchSize THEN n_samples
                                  ELSE it.batch_size
          IN IF n_samples = 0
             THEN /\ sample_perm = <<>>
                  /\ it' = [it EXCEPT !.i = @ + 1]
             ELSE /\ sample_perm \in Perms(n_samples)
                  /\ it.deterministic => sample_perm = Identity(n_samples)
                  /\ LET points == interval_points(n_samples, shard_batch_size)
                     IN IF Len(points) - 1 <= 0
                        THEN it' = [it EXCEPT !.i = @ + 1, !.sample_perm = sample_perm,
                                              !.points = points]
                        ELSE it' = [it EXCEPT !.pc = "batch",
                                              !.sample_perm = sample_perm,
                                              !.points = points,
                                              !.j = 0]
  /\ UNCHANGED <<files, disk_meta, tasks, metadata_df, derived, last, pre, tr, step>>

\* one pass of the loop over the interval points (lines 268-287): yields a batch
iterate_batch ==
  /\ it.pc = "batch"
  /\ LET sh == get_shard(files, metadata_df, it.shard_perm[it.i + 1] - 1)
         shard_batch_size == IF it.batch_size = NoBatchSize THEN Len(sh.X)
                             ELSE it.batch_size
         raw == batch_of(sh, it.sample_perm, it.points[it.j + 1], it.points[it.j + 2])
         out == IF it.pad_batches THEN pad_batch(shard_batch_size, raw) ELSE raw
         more == it.j + 1 < Len(it.points) - 1
     IN it' = [it EXCEPT !.batch = out,
                         !.real = Len(raw.X),
                         !.nbatch = @ + 1,
                         !.yielded = @ \o SubSeq(RowsOf(out), 1, Len(raw.X)),
                         !.j = IF more THEN @ + 1 ELSE 0,
                         !.i = IF more THEN @ ELSE @ + 1,
                         !.pc = IF more THEN "batch" ELSE "shard"]
  /\ UNCHANGED <<files, disk_meta, tasks, metadata_df, derived, last, pre, tr, step>>

\* the row count of the shard the generator loads next (0 when there is none)
NextShardRows ==
  IF it.pc = "shard" /\ it.i < Len(metadata_df)
  THEN Len(get_shard(files, metadata_df, it.shard_perm[it.i + 1] - 1).X)
  ELSE 0

InitBatches ==
  \E src \in UniformSources(BatchMaxShards, BatchMaxRows) :
    LET d == create_dataset(src, EmptyDir, TaskList)
    IN /\ files = d.files
       /\ disk_meta = d.disk_meta
       /\ tasks = d.tasks
       /\ metadata_df = d.metadata_df
       /\ derived = NoDerived
       /\ last = [op |-> "create_dataset", src |-> src]
       /\ pre = [files |-> EmptyDir, disk_meta |-> NoMeta, tasks |-> <<>>,
                 metadata_df |-> <<>>]
       /\ it = IdleIt
       /\ tr = NoTr
       /\ step = NoStep

NextBatches ==
  \/ \E batch_size \in (1..MaxBatchSize) \cup {NoBatchSize}, deterministic \in BOOLEAN,
        pad_batches \in BOOLEAN, shard_perm \in Perms(Len(metadata_df)) :
       iterbatches(batch_size, deterministic, pad_batches, shard_perm)
  \/ \E sample_perm \in Perms(NextShardRows) : iterate_shard(sample_perm)
  \/ iterate_batch

SpecBatches == InitBatches /\ [][NextBatches]_vars


\* ================================================================ claims
NowRows == AllRows(files, metadata_df)
PreRows == AllRows(pre.files, pre.metadata_df)
Running == it.pc \in {"shard", "batch", "done"}

\* C1: with pad_batches=False one full pass of iterbatches, deterministic or
\* randomized, yields every row of the dataset exactly once: as many rows as
\* len() counts, and no row twice.
C1_EveryRowOnce ==
  (Running /\ ~it.pad_batches) =>
     /\ \A a, b \in DOMAIN it.yielded : it.yielded[a] = it.yielded[b] => a = b
     /\ it.pc = "done" =>
          /\ Len(it.yielded) = len(files, metadata_df)
          /\ SameBag(it.yielded, NowRows)

C1_Witness ==
  /\ it.pc = "done" /\ ~it.pad_batches /\ ~it.deterministic
  /\ it.batch_size = 2 /\ it.nbatch >= 3
  /\ Len(metadata_df) = 2
  /\ it.yielded # NowRows

\* C2: with pad_batches=True and batch_size b >= 1 every batch yielded has
\* exactly b rows, the rows after the unpadded part repeat rows of the same
\* batch, and the unpadded parts of a full pass are every row exactly once.
C2_PaddedBatches ==
  (Running /\ it.pad_batches /\ it.batch_size >= 1) =>
     /\ it.nbatch > 0 =>
          /\ Len(it.batch.X) = it.batch_size
          /\ Len(it.batch.ids) = it.batch_size
          /\ it.batch.y # None => Len(it.batch.y) = it.batch_size
          /\ it.batch.w # None => Len(it.batch.w) = it.batch_size
          /\ it.real >= 1 /\ it.real <= it.batch_size
          /\ \A k \in (it.real + 1)..it.batch_size :
               \E m \in 1..it.real : RowsOf(it.batch)[k] = RowsOf(it.batch)[m]
     /\ it.pc = "done" => SameBag(it.yielded, NowRows)

C2_Witness ==
  /\ it.pc = "done" /\ it.pad_batches /\ it.batch_size = 3
  /\ it.nbatch >= 2 /\ it.real < 3
  /\ Len(it.batch.X) = 3

\* C3: one shard of 5 rows, batch_size=3, pad_batches=True, deterministic:
\* two batches, the first rows 0,1,2 unpadded, the second rows 3,4 padded
\* with one repeated row.
C3_Scenario ==
  /\ Running /\ it.pad_batches /\ it.deterministic /\ it.batch_size = 3
  /\ Len(metadata_df) = 1
  /\ Len(NowRows) = 5

C3_FiveRowsThreePerBatch ==
  C3_Scenario =>
     /\ it.nbatch = 1 =>
          /\ it.real = 3
          /\ RowsOf(it.batch) = SubSeq(NowRows, 1, 3)
     /\ it.nbatch = 2 =>
          /\ it.real = 2
          /\ Len(it.batch.X) = 3
          /\ SubSeq(RowsOf(it.batch), 1, 2) = SubSeq(NowRows, 4, 5)
     /\ it.pc = "done" => it.nbatch = 2

\* C4: a reshard call leaves the sequence of rows (X, y, w, id), read shard
\* after shard in index order, exactly as it was before the call; so does
\* any sequence of reshard calls.
C4_ReshardKeepsRows ==
  last.op = "reshard" => NowRows = PreRows

C4_Witness ==
  /\ last.op = "reshard" /\ ~last.raised /\ last.shard_size = 2
  /\ Len(pre.metadata_df) = 3 /\ Len(metadata_df) = 2
  /\ Len(NowRows) = 3

\* C5: select(indices) returns a dataset whose rows, read in shard order, are
\* the rows of the source at the sorted indices, and leaves the source as
\* it was.
C5_SelectRows ==
  last.op = "select" =>
     /\ derived.exists
     /\ AllRows(derived.files, derived.metadata_df)
          = Take(NowRows, SortedSeq(last.indices))
     /\ files = pre.files /\ metadata_df = pre.metadata_df
     /\ disk_meta = pre.disk_meta /\ tasks = pre.tasks

\* C6: sparse_shuffle keeps the multiset of rows of the dataset and the row
\* count of every shard.
C6_SparseShuffleKeepsRows ==
  (last.op = "sparse_shuffle" /\ ~last.raised) =>
     /\ SameBag(NowRows, PreRows)
     /\ \A k \in DOMAIN metadata_df :
          Len(ShardRows(files, metadata_df)[k])
            = Len(ShardRows(pre.files, pre.metadata_df)[k])

\* C7: shuffle_shards only reorders the descriptors: the same multiset of
\* descriptors, no data file written, the rows behind every descriptor as
\* before, and the saved index equal to the new order.
C7_ShuffleShardsOnlyReorders ==
  last.op = "shuffle_shards" =>
     /\ SameBag(metadata_df, pre.metadata_df)
     /\ files = pre.files
     /\ \A k \in DOMAIN pre.metadata_df :
          \E j \in DOMAIN metadata_df :
             /\ metadata_df[j] = pre.metadata_df[k]
             /\ ShardRows(files, metadata_df)[j]
                  = ShardRows(pre.files, pre.metadata_df)[k]
     /\ disk_meta.exists
     /\ disk_meta.metadata_df = metadata_df
     /\ disk_meta.tasks = tasks

C7_Witness ==
  /\ last.op = "shuffle_shards"
  /\ Len(metadata_df) = 3
  /\ metadata_df # pre.metadata_df
  /\ NowRows # PreRows

\* C8: shuffle_each_shard leaves at every shard position the same multiset
\* of rows (X, y, w, id together) and the same row count as before.
C8_ShuffleEachShardKeepsShards ==
  last.op = "shuffle_each_shard" =>
     /\ Len(metadata_df) = Len(pre.metadata_df)
     /\ \A k \in DOMAIN metadata_df :
          SameBag(ShardRows(files, metadata_df)[k],
                  ShardRows(pre.files, pre.metadata_df)[k])

C8_Witness ==
  /\ last.op = "shuffle_each_shard"
  /\ Len(metadata_df) >= 2
  /\ metadata_df[1].basename # 0
  /\ NowRows # PreRows

\* C9: a shard with labels never reads absent weights: when its weights
\* reference is null, and when the referenced file is missing, get_shard and
\* itershards give all-ones weights of the labels' shape.
C9_WeightsNeverAbsent ==
  \A k \in DOMAIN metadata_df :
     LET row == metadata_df[k]
         y == get_shard(files, metadata_df, k - 1).y
     IN (row.y # NullRef /\ (row.w = NullRef \/ files[row.w].w = NoFile)) =>
           /\ get_shard(files, metadata_df, k - 1).w = ones(y)
           /\ itershards(files, metadata_df)[k].w = ones(y)

\* C9 as amended: with labels present, a non-null weights reference whose
\* file is missing reads as all-ones weights of the labels' shape; a null
\* weights reference reads as None.
C9_MissingFileGivesOnes ==
  \A k \in DOMAIN metadata_df :
     LET row == metadata_df[k]
         y == get_shard(files, metadata_df, k - 1).y
     IN row.y # NullRef =>
           /\ (row.w # NullRef /\ files[row.w].w = NoFile) =>
                 /\ get_shard(files, metadata_df, k - 1).w = ones(y)
                 /\ itershards(files, metadata_df)[k].w = ones(y)
                 /\ Len(ones(y)) = Len(files[row.y].y)
           /\ row.w = NullRef =>
                 /\ get_shard(files, metadata_df, k - 1).w = None
                 /\ itershards(files, metadata_df)[k].w = None

C9_Witness ==
  \E k \in DOMAIN metadata_df :
     /\ metadata_df[k].y # NullRef /\ metadata_df[k].w # NullRef
     /\ files[metadata_df[k].w].w = NoFile
     /\ Len(files[metadata_df[k].y].y) >= 2

\* C10: create_dataset writes one shard per tuple of the source in arrival
\* order, a handle reopened from the directory iterates the same shards in
\* the same order with the same content, and an empty source gives a
\* zero-shard dataset of length 0.
C10_CreateInArrivalOrder ==
  last.op = "create_dataset" =>
     LET src == last.src
         re == DiskDataset__init__(files, disk_meta)
     IN /\ Len(metadata_df) = Len(src)
        /\ \A i \in DOMAIN src :
             /\ metadata_df[i].basename = i - 1
             /\ get_shard(files, metadata_df, i - 1) = src[i]
        /\ re.exists
        /\ re.metadata_df = metadata_df
        /\ itershards(re.files, re.metadata_df) = src
        /\ src = <<>> => (Len(re.metadata_df) = 0 /\ len(re.files, re.metadata_df) = 0)

C10_Witness ==
  /\ last.op = "create_dataset"
  /\ Len(last.src) = 2
  /\ last.src[1].w = None /\ Len(last.src[1].X) = 1
  /\ last.src[2].w # None /\ Len(last.src[2].X) = 2

\* ------------------------------------------------- the index and its saves
\* set_shard(shard_num, X, y, w, ids): the arrays go to "shard-<shard_num>";
\* the descriptor write_data_to_disk returns is dropped and nothing is saved
SetShard(shard_num, sh) ==
  /\ disk_meta.exists
  /\ files' = set_shard(files, tasks, shard_num, sh.X, sh.y, sh.w, sh.ids)
  /\ derived' = NoDerived
  /\ last' = [op |-> "set_shard", shard_num |-> shard_num, shard |-> sh]
  /\ pre' = Snapshot
  /\ UNCHANGED <<disk_meta, tasks, metadata_df, it, tr, step>>

Kinds == {"full", "no_w", "unlabelled"}

NextIndex ==
  \/ \E src \in UniformSources(PartialMaxShards, IndexMaxRows) : CreateDataset(src)
  \/ \E n \in 0..(IndexMaxRows - MaxToken), kind \in Kinds :
       Len(metadata_df) < PartialMaxShards /\ add_shard(n, kind)
  \/ \E shard_num \in 0..(PartialMaxShards - 1), n \in 0..(IndexMaxRows - MaxToken),
        kind \in Kinds :
       SetShard(shard_num, Tuple(MaxToken + 1, n, kind))
  \/ \E shard_size \in 1..IndexMaxRows : reshard(shard_size)
  \/ \E p \in Perms(Len(metadata_df)) : shuffle_shards(p)
  \/ \E perms \in PermSeqs(ShardSizes) : shuffle_each_shard(perms)
  \/ \E permutation \in Perms(SumSeq(ShardSizes)) : sparse_shuffle(permutation)

SpecIndex == Init /\ [][NextIndex]_vars

\* the references of a descriptor row, as (field, basename) pairs
Refs(row) == {<<"X", row.X>>, <<"y", row.y>>, <<"w", row.w>>, <<"ids", row.ids>>}
FileOf(dir, ref) == dir[ref[2]][ref[1]]

\* the index stored in the directory is the one the live handle holds, its
\* non-null references name files that exist, and a handle reopened from the
\* directory reads the same shards in the same order
IndexPersisted ==
  disk_meta.exists =>
    /\ disk_meta.metadata_df = metadata_df
    /\ disk_meta.tasks = tasks
    /\ \A k \in DOMAIN metadata_df : \A ref \in Refs(metadata_df[k]) :
         ref[2] # NullRef => FileOf(files, ref) # NoFile
    /\ LET re == DiskDataset__init__(files, disk_meta)
       IN /\ itershards(re.files, re.metadata_df) = itershards(files, metadata_df)
          /\ ShardRows(re.files, re.metadata_df) = ShardRows(files, metadata_df)

Failed == [raised |-> TRUE]

Transformer__init__(transform_X, transform_y, transform_w) ==
  IF ~(transform_X \/ transform_y \/ transform_w) THEN Failed
  ELSE IF (IF transform_X THEN 1 ELSE 0) + (IF transform_y THEN 1 ELSE 0)
            + (IF transform_w THEN 1 ELSE 0) # 1 THEN Failed
  ELSE [raised |-> FALSE, transform_X |-> transform_X, transform_y |-> transform_y,
        transform_w |-> transform_w]

\* A constructed transformer: its class, its flags, and the statistics its
\* untransform uses (means and stds of a NormalizationTransformer, the stored
\* labels of a CDFTransformer)
Transformer(cls, target, means, stds) ==
  [cls |-> cls, transform_X |-> target = "X", transform_y |-> target = "y",
   transform_w |-> target = "w", means |-> means, stds |-> stds, y |-> <<7>>]

Transformers ==
  {Transformer("Normalization", "y", 1, 2), Transformer("Normalization", "y", 3, 1),
   Transformer("Normalization", "X", 1, 2), Transformer("Clipping", "X", 0, 1),
   Transformer("Clipping", "y", 0, 1), Transformer("Balancing", "w", 0, 1),
   Transformer("CDF", "y", 0, 1)}

\* untransform(z) of each class: NormalizationTransformer (lines 146-153),
\* ClippingTransformer (247-249, raises), CDFTransformer (398-402, gives the
\* stored labels), the base class for BalancingTransformer (79-82, raises)
untransform(t, z) ==
  CASE t.cls = "Normalization" ->
         IF t.transform_X THEN [i \in 1..Len(z) |-> z[i] * t.stds + t.means]
         ELSE IF t.transform_y THEN [i \in 1..Len(z) |-> z[i] * t.stds + t.means]
         ELSE None
    [] t.cls = "CDF" -> IF t.transform_y THEN t.y ELSE None
    [] OTHER -> Raised

\* the order in which the loop of undo_transforms visits the pipeline,
\* first to last instead of reversed
undo_order_forward(transformers) == [k \in 1..Len(transformers) |-> k]

\* reversed(transformers): the positions of the pipeline, last to first
undo_order(transformers) ==
  [k \in 1..Len(transformers) |-> Len(transformers) + 1 - k]

Pipelines == UNION {[1..n -> Transformers] : n \in 0..MaxPipeline}

\* no dataset directory, no iterator, no structural call under way
NoDataset ==
  /\ files = EmptyDir
  /\ disk_meta = NoMeta
  /\ tasks = <<>>
  /\ metadata_df = <<>>
  /\ derived = NoDerived
  /\ last = [op |-> "init"]
  /\ pre = [files |-> EmptyDir, disk_meta |-> NoMeta, tasks |-> <<>>, metadata_df |-> <<>>]
  /\ it = IdleIt
  /\ step = NoStep

InitUndo ==
  /\ NoDataset
  /\ \E pipeline \in Pipelines, y \in {<<0>>, <<2, 5>>} :
       tr = [pc |-> "given", pipeline |-> pipeline, y |-> y]

\* undo_transforms(y, transformers) called with the pipeline as given
undo_transforms ==
  /\ tr.pc = "given"
  /\ tr' = [pc |-> "loop", pipeline |-> tr.pipeline, y |-> tr.y,
            transformers |-> tr.pipeline, z |-> tr.y, k |-> 1, calls |-> <<>>]
  /\ UNCHANGED <<files, disk_meta, tasks, metadata_df, derived, last, pre, it, step>>

\* Evaluator.__init__ keeps the transformers with transform_y set, and the
\* evaluation calls undo_transforms(y, self.output_transformers)
Evaluator_undo_transforms ==
  /\ tr.pc = "given"
  /\ LET output_transformers ==
           IF Len(tr.pipeline) > 0
           THEN SelectSeq(tr.pipeline, LAMBDA t : t.transform_y)
           ELSE <<>>
     IN tr' = [pc |-> "loop", pipeline |-> tr.pipeline, y |-> tr.y,
               transformers |-> output_transformers, z |-> tr.y, k |-> 1,
               calls |-> <<>>]
  /\ UNCHANGED <<files, disk_meta, tasks, metadata_df, derived, last, pre, it, step>>

\* one pass of "for transformer in reversed(transformers)"
undo_transforms_step ==
  /\ tr.pc = "loop"
  /\ tr.k <= Len(tr.transformers)
  /\ LET pos == undo_order(tr.transformers)[tr.k]
         transformer == tr.transformers[pos]
     IN IF transformer.transform_y
        THEN LET z == untransform(transformer, tr.z)
             IN tr' = [tr EXCEPT !.z = z, !.k = @ + 1, !.calls = Append(@, pos),
                                 !.pc = IF z = Raised THEN "raised" ELSE "loop"]
        ELSE tr' = [tr EXCEPT !.k = @ + 1]
  /\ UNCHANGED <<files, disk_meta, tasks, metadata_df, derived, last, pre, it, step>>

\* return y
undo_transforms_return ==
  /\ tr.pc = "loop"
  /\ tr.k > Len(tr.transformers)
  /\ tr' = [tr EXCEPT !.pc = "done"]
  /\ UNCHANGED <<files, disk_meta, tasks, metadata_df, derived, last, pre, it, step>>

NextUndo ==
  \/ undo_transforms
  \/ Evaluator_undo_transforms
  \/ undo_transforms_step
  \/ undo_transforms_return

SpecUndo == InitUndo /\ [][NextUndo]_vars

\* the positions of the label-affecting transformers, last to first
RECURSIVE LabelPositionsReversed(_, _)
LabelPositionsReversed(transformers, n) ==
  IF n = 0 THEN <<>>
  ELSE (IF transformers[n].transform_y THEN <<n>> ELSE <<>>)
         \o LabelPositionsReversed(transformers, n - 1)

\* the untransforms at the given positions applied one after the other
RECURSIVE ApplyAt(_, _, _)
ApplyAt(transformers, positions, z) ==
  IF positions = <<>> THEN z
  ELSE ApplyAt(transformers, Tail(positions),
               untransform(transformers[Head(positions)], z))

\* C12: undo_transforms invokes the untransform of exactly the transformers
\* marked as affecting labels, last of the pipeline first, never that of a
\* transformer of features or weights only; the value returned is the input
\* with these untransforms applied in that order, the input itself when no
\* transformer affects labels.
C12_UndoInReverseOrder ==
  tr.pc \in {"loop", "raised", "done"} =>
    LET due == LabelPositionsReversed(tr.transformers, Len(tr.transformers))
    IN /\ Len(tr.calls) <= Len(due)
       /\ tr.calls = SubSeq(due, 1, Len(tr.calls))
       /\ \A c \in DOMAIN tr.calls :
            /\ tr.transformers[tr.calls[c]].transform_y
            /\ ~tr.transformers[tr.calls[c]].transform_X
            /\ ~tr.transformers[tr.calls[c]].transform_w
       /\ tr.pc = "done" =>
            /\ tr.calls = due
            /\ tr.z = ApplyAt(tr.transformers, due, tr.y)
            /\ due = <<>> => tr.z = tr.y

C12_Witness ==
  /\ tr.pc = "done"
  /\ Len(tr.pipeline) = 3 /\ tr.transformers = tr.pipeline
  /\ tr.calls = <<3, 1>>
  /\ tr.pipeline[1] # tr.pipeline[3]
  /\ tr.y = <<2, 5>>
  /\ tr.z # ApplyAt(tr.transformers, <<1, 3>>, tr.y)

\* ------------------------------------------- constructing a transformer
\* A reference dataset as the constructors read it: y and w are matrices, one
\* row per sample and one column per task; dataset=None has present FALSE.
NoneDataset == [present |-> FALSE, y |-> <<>>, w |-> <<>>, n_tasks |-> 0]
Dataset(y, w, n_tasks) == [present |-> TRUE, y |-> y, w |-> w, n_tasks |-> n_tasks]

Column(m, ind) == [i \in 1..Len(m) |-> m[i][ind]]
Unique(m) == UNION {Range(m[i]) : i \in DOMAIN m}

\* float(a) / b as a fraction in lowest terms
RECURSIVE Gcd(_, _)
Gcd(a, b) == IF b = 0 THEN a ELSE Gcd(b, a % b)
Ratio(a, b) == LET g == Gcd(a, b) IN <<a \div g, b \div g>>
One == <<1, 1>>
Zero == <<0, 1>>

\* NormalizationTransformer.__init__ (lines 105-132): the base constructor,
\* then the statistics of the dataset for the targeted array
NormalizationTransformer__init__(transform_X, transform_y, transform_w, dataset) ==
  LET self == Transformer__init__(transform_X, transform_y, transform_w)
  IN IF self.raised THEN Failed
     ELSE IF (transform_X \/ transform_y) /\ ~dataset.present THEN Failed
     ELSE self

\* ClippingTransformer.__init__ (lines 183-215)
ClippingTransformer__init__(transform_X, transform_y, transform_w, dataset) ==
  LET self == Transformer__init__(transform_X, transform_y, transform_w)
  IN IF self.raised THEN Failed
     ELSE IF transform_w THEN Failed
     ELSE self

\* LogTransformer.__init__ (lines 253-263): no transform_w parameter, so a
\* call that passes it fails; the base constructor gets the other two
LogTransformer__init__(transform_X, transform_y, transform_w, dataset) ==
  IF transform_w THEN Failed
  ELSE Transformer__init__(transform_X, transform_y, FALSE)

\* the weights a BalancingTransformer stores with every positive-class weight 1
balancing_weights_ones(y, w, n_tasks) ==
  [ind \in 1..n_tasks |-> <<One, One>>]

\* BalancingTransformer.__init__, lines 341-355: per task the pair
\* (neg_weight, pos_weight)
balancing_weights(y, w, n_tasks) ==
  [ind \in 1..n_tasks |->
     LET task_w == Column(w, ind)
         task_y == Column(y, ind)
         kept == {i \in DOMAIN task_y : task_w[i] # 0}
         num_positives == Cardinality({i \in kept : task_y[i] # 0})
         num_negatives == Cardinality(kept) - num_positives
         pos_weight == IF num_positives > 0 THEN Ratio(num_negatives, num_positives)
                       ELSE One
         neg_weight == One
     IN <<neg_weight, pos_weight>>]

\* BalancingTransformer.__init__ (lines 320-355)
BalancingTransformer__init__(transform_X, transform_y, transform_w, dataset) ==
  LET self == Transformer__init__(transform_X, transform_y, transform_w)
  IN IF self.raised THEN Failed
     ELSE IF transform_X \/ transform_y \/ ~transform_w THEN Failed
     ELSE IF ~dataset.present THEN Failed
     ELSE IF Unique(dataset.y) # {0, 1} THEN Failed
     ELSE [raised |-> FALSE, transform_X |-> transform_X, transform_y |-> transform_y,
           transform_w |-> transform_w, n_tasks |-> dataset.n_tasks,
           weights |-> balancing_weights(dataset.y, dataset.w, dataset.n_tasks)]

\* CDFTransformer.__init__ (lines 374-379): stores the two flags and the
\* labels of the dataset; the base constructor is not called
CDFTransformer__init__(transform_X, transform_y, transform_w, dataset) ==
  IF transform_w THEN Failed
  ELSE IF ~dataset.present THEN Failed
  ELSE [raised |-> FALSE, transform_X |-> transform_X, transform_y |-> transform_y,
        transform_w |-> FALSE]

\* PowerTransformer.__init__ (lines 429-432): stores the two flags; the base
\* constructor is not called
PowerTransformer__init__(transform_X, transform_y, transform_w, dataset) ==
  IF transform_w THEN Failed
  ELSE [raised |-> FALSE, transform_X |-> transform_X, transform_y |-> transform_y,
        transform_w |-> FALSE]

Classes == {"Normalization", "Clipping", "Log", "Balancing", "CDF", "Power"}

RefDatasets ==
  {NoneDataset,
   Dataset(<<<<0>>, <<1>>>>, <<<<1>>, <<1>>>>, 1),
   Dataset(<<<<0>>, <<2>>>>, <<<<1>>, <<1>>>>, 1)}

InitConstruct ==
  /\ NoDataset
  /\ \E cls \in Classes, transform_X \in BOOLEAN, transform_y \in BOOLEAN,
        transform_w \in BOOLEAN, dataset \in RefDatasets :
       tr = [pc |-> "args", cls |-> cls, transform_X |-> transform_X,
             transform_y |-> transform_y, transform_w |-> transform_w,
             dataset |-> dataset]

\* cls(transform_X=..., transform_y=..., transform_w=..., dataset=...)
construct ==
  /\ tr.pc = "args"
  /\ LET self ==
           CASE tr.cls = "Normalization" ->
                  NormalizationTransformer__init__(tr.transform_X, tr.transform_y,
                                                   tr.transform_w, tr.dataset)
             [] tr.cls = "Clipping" ->
                  ClippingTransformer__init__(tr.transform_X, tr.transform_y,
                                              tr.transform_w, tr.dataset)
             [] tr.cls = "Log" ->
                  LogTransformer__init__(tr.transform_X, tr.transform_y,
                                         tr.transform_w, tr.dataset)
             [] tr.cls = "Balancing" ->
                  BalancingTransformer__init__(tr.transform_X, tr.transform_y,
                                               tr.transform_w, tr.dataset)
             [] tr.cls = "CDF" ->
                  CDFTransformer__init__(tr.transform_X, tr.transform_y,
                                         tr.transform_w, tr.dataset)
             [] tr.cls = "Power" ->
                  PowerTransformer__init__(tr.transform_X, tr.transform_y,
                                           tr.transform_w, tr.dataset)
     IN tr' = [pc |-> IF self.raised THEN "raised" ELSE "constructed",
               cls |-> tr.cls, transform_X |-> tr.transform_X,
               transform_y |-> tr.transform_y, transform_w |-> tr.transform_w,
               dataset |-> tr.dataset, self |-> self]
  /\ UNCHANGED <<files, disk_meta, tasks, metadata_df, derived, last, pre, it, step>>

NextConstruct == construct

SpecConstruct == InitConstruct /\ [][NextConstruct]_vars

Targets(t) == (IF t.transform_X THEN 1 ELSE 0) + (IF t.transform_y THEN 1 ELSE 0)
                + (IF t.transform_w THEN 1 ELSE 0)

\* C13: for each of Normalization, Clipping, Logarithm, Balancing,
\* CDF-binning and Power, a construction that targets none of features,
\* labels, weights, or more than one of them, fails; every instance that was
\* constructed targets exactly one of the three.
C13_ExactlyOneTarget ==
  /\ (tr.pc \in {"constructed", "raised"} /\ Targets(tr) # 1) => tr.pc = "raised"
  /\ tr.pc = "constructed" => Targets(tr.self) = 1

\* ------------------------------------------------- BalancingTransformer
Matrices(n, n_tasks, V) == [1..n -> [1..n_tasks -> V]]

\* one task, 8 negatives and 2 positives, all with weight 1
EightToTwo ==
  Dataset([i \in 1..10 |-> <<IF i <= 8 THEN 0 ELSE 1>>], [i \in 1..10 |-> <<1>>], 1)

\* the reference datasets have one task or two
TaskCounts == {1, 2}

\* transform_array giving the class weight to every entry, zero-weight or not
balancing_transform_array_all(self, X, y, w) ==
  [X |-> X, y |-> y,
   w |-> [i \in 1..Len(w) |-> [ind \in 1..Len(w[i]) |->
            IF ind <= self.n_tasks /\ y[i][ind] = 0 THEN self.weights[ind][1]
            ELSE IF ind <= self.n_tasks /\ y[i][ind] = 1 THEN self.weights[ind][2]
            ELSE Zero]]]

\* BalancingTransformer.transform_array (lines 357-367): w_balanced starts as
\* zeros; per task the entries with label 0 and nonzero weight get
\* weights[ind][0], those with label 1 and nonzero weight get weights[ind][1]
balancing_transform_array(self, X, y, w) ==
  [X |-> X, y |-> y,
   w |-> [i \in 1..Len(w) |-> [ind \in 1..Len(w[i]) |->
            IF ind <= self.n_tasks /\ y[i][ind] = 0 /\ w[i][ind] # 0
            THEN self.weights[ind][1]
            ELSE IF ind <= self.n_tasks /\ y[i][ind] = 1 /\ w[i][ind] # 0
            THEN self.weights[ind][2]
            ELSE Zero]]]

InitBalancing ==
  /\ NoDataset
  /\ \/ tr = [pc |-> "args", dataset |-> EightToTwo]
     \/ \E n \in 1..MaxBalRows, n_tasks \in TaskCounts :
          \E y \in Matrices(n, n_tasks, {0, 1}), w \in Matrices(n, n_tasks, {0, 2}) :
             tr = [pc |-> "args", dataset |-> Dataset(y, w, n_tasks)]

\* BalancingTransformer(transform_w=True, dataset=dataset)
BalancingTransformer_new ==
  /\ tr.pc = "args"
  /\ LET self == BalancingTransformer__init__(FALSE, FALSE, TRUE, tr.dataset)
     IN tr' = [pc |-> IF self.raised THEN "raised" ELSE "constructed",
               dataset |-> tr.dataset, self |-> self]
  /\ UNCHANGED <<files, disk_meta, tasks, metadata_df, derived, last, pre, it, step>>

\* transformer.transform_array(X, y, w) on one row of arrays
BalancingTransformer_transform_array(X, y, w) ==
  /\ tr.pc = "constructed"
  /\ tr' = [pc |-> "transformed", self |-> tr.self, X |-> X, y |-> y, w |-> w,
            out |-> balancing_transform_array(tr.self, X, y, w)]
  /\ UNCHANGED <<files, disk_meta, tasks, metadata_df, derived, last, pre, it, step>>

\* the number of tasks of the transformer that was constructed (0 when none)
SelfTasks == IF tr.pc = "constructed" THEN tr.self.n_tasks ELSE 0

NextBalancing ==
  \/ BalancingTransformer_new
  \/ \E X \in {<<<<7>>>>}, y \in Matrices(1, SelfTasks, {0, 1}),
        w \in Matrices(1, SelfTasks, {0, 1, 5}) :
       BalancingTransformer_transform_array(X, y, w)

SpecBalancing == InitBalancing /\ [][NextBalancing]_vars

\* the rows of the reference dataset with nonzero weight and the given label
CountLabel(dataset, ind, label) ==
  Cardinality({i \in DOMAIN dataset.y :
                 dataset.w[i][ind] # 0 /\ dataset.y[i][ind] = label})

\* C14: built from a reference dataset whose labels are exactly {0, 1}, the
\* transformer stores per task the negative-class weight 1 and the
\* positive-class weight (negatives with nonzero weight) / (positives with
\* nonzero weight), 1 when the task has no such positive; 8 negatives and 2
\* positives (the ratio of 80 to 20) give 4 and 1.
C14_BalancingWeights ==
  /\ (tr.pc \in {"constructed", "raised"} /\ Unique(tr.dataset.y) = {0, 1}) =>
        tr.pc = "constructed"
  /\ tr.pc = "constructed" =>
       /\ Len(tr.self.weights) = tr.dataset.n_tasks
       /\ \A ind \in 1..tr.dataset.n_tasks :
            LET neg == CountLabel(tr.dataset, ind, 0)
                pos == CountLabel(tr.dataset, ind, 1)
                neg_weight == tr.self.weights[ind][1]
                pos_weight == tr.self.weights[ind][2]
            IN /\ neg_weight = One
               /\ pos > 0 => (pos_weight[1] * pos = pos_weight[2] * neg /\ pos_weight[2] > 0)
               /\ pos = 0 => pos_weight = One
       /\ tr.dataset = EightToTwo => tr.self.weights = <<(<<One, <<4, 1>>>>)>>

C14_Witness ==
  /\ tr.pc = "constructed"
  /\ tr.dataset.n_tasks = 2 /\ Len(tr.dataset.y) = 3
  /\ tr.self.weights[1][2] = One
  /\ CountLabel(tr.dataset, 1, 1) = 1
  /\ \E i \in 1..3 : tr.dataset.w[i][1] = 0 /\ tr.dataset.y[i][1] = 1
  /\ tr.self.weights[2][2] = <<2, 1>>

\* C15: the forward transform leaves an entry of weight 0 at 0, gives an
\* entry of nonzero weight the class weight of its task for its label,
\* whatever the size of the original weight, and returns features and labels
\* as they were.
C15_BalancingForward ==
  tr.pc = "transformed" =>
    /\ tr.out.X = tr.X
    /\ tr.out.y = tr.y
    /\ Len(tr.out.w) = Len(tr.w)
    /\ \A i \in DOMAIN tr.w : \A ind \in DOMAIN tr.w[i] :
         /\ tr.w[i][ind] = 0 => tr.out.w[i][ind] = Zero
         /\ (tr.w[i][ind] # 0 /\ tr.y[i][ind] = 0) =>
               tr.out.w[i][ind] = tr.self.weights[ind][1]
         /\ (tr.w[i][ind] # 0 /\ tr.y[i][ind] = 1) =>
               tr.out.w[i][ind] = tr.self.weights[ind][2]

C15_Witness ==
  /\ tr.pc = "transformed"
  /\ tr.self.n_tasks = 2
  /\ tr.w[1] = <<5, 0>> /\ tr.y[1] = <<1, 1>>
  /\ tr.self.weights[1][2] = <<1, 2>>
  /\ tr.self.weights[2][2] = <<2, 1>>
  /\ tr.out.w[1] = <<(<<1, 2>>), Zero>>

\* ---------------------------------------------------------- get_cdf_values
\* a float quotient a / b: a fraction in lowest terms, NaN for 0 / 0
NaN == <<0, 0>>
Quotient(a, b) == IF b = 0 THEN NaN ELSE Ratio(a, b)
\* x <= y on these values; a comparison with NaN is false
Leq(x, y) == x # NaN /\ y # NaN /\ x[1] * y[2] <= y[1] * x[2]

\* hist_values (lines 410-417), row counted from 0:
\* floor(row / (n_rows / bins)) / (bins - 1) when bins is odd, / bins otherwise
hist_value(row, n_rows, bins) ==
  IF bins % 2 = 1 THEN Quotient((row * bins) \div n_rows, bins - 1)
  ELSE Quotient((row * bins) \div n_rows, bins)

\* np.argsort(column): order[k] is the position of the k-th smallest value
IsArgsort(order, column) ==
  /\ order \in Perms(Len(column))
  /\ \A a, b \in DOMAIN order : a < b => column[order[a]] <= column[order[b]]

\* get_cdf_values (lines 405-423): every column of the result is
\* hist_values[order], order being the argsort of that column
get_cdf_values(array, bins, orders) ==
  LET n_rows == Len(array)
      hist_values == [k \in 1..n_rows |-> hist_value(k - 1, n_rows, bins)]
  IN [i \in 1..n_rows |-> [col \in 1..Len(array[i]) |->
        Permute(hist_values, orders[col])[i]]]

CdfValues == {1, 2, 3}

InitCdf ==
  /\ NoDataset
  /\ \E n_rows \in 1..MaxCdfRows, n_cols \in {1, 2}, bins \in 1..MaxBins :
       \E array \in Matrices(n_rows, n_cols, CdfValues) :
          tr = [pc |-> "args", array |-> array, bins |-> bins]

cdf_transform(orders) ==
  /\ tr.pc = "args"
  /\ \A col \in DOMAIN orders : IsArgsort(orders[col], Column(tr.array, col))
  /\ tr' = [pc |-> "done", array |-> tr.array, bins |-> tr.bins, orders |-> orders,
            array_t |-> get_cdf_values(tr.array, tr.bins, orders)]
  /\ UNCHANGED <<files, disk_meta, tasks, metadata_df, derived, last, pre, it, step>>

\* the shape of the array the transformer is about to be applied to
ArgRows == IF tr.pc = "args" THEN Len(tr.array) ELSE 0
ArgCols == IF tr.pc = "args" THEN Len(tr.array[1]) ELSE 0

NextCdf ==
  \E orders \in [1..ArgCols -> Perms(ArgRows)] : cdf_transform(orders)

SpecCdf == InitCdf /\ [][NextCdf]_vars

\* C16: in every column the row holding the r-th smallest value (r from 0)
\* receives floor(r / (n / bins)) / bins, / (bins - 1) when bins is odd, at
\* its own position, so that x_i < x_j implies out_i <= out_j.
C16_CdfKeepsOrder ==
  tr.pc = "done" =>
    \A col \in DOMAIN tr.orders :
       LET x == Column(tr.array, col)
           out == Column(tr.array_t, col)
           n == Len(x)
       IN /\ \A r \in 0..(n - 1) :
               out[tr.orders[col][r + 1]] = hist_value(r, n, tr.bins)
          /\ \A i, j \in 1..n : x[i] < x[j] => Leq(out[i], out[j])

\* ------------------------------------ reshard and sparse_shuffle, by step
\* reshard, lines 138-164: the temporary directory is made and the generator
\* is set up; get_data_shape raises before anything is written
ReshardBegin(shard_size) ==
  /\ step.pc = "idle"
  /\ disk_meta.exists
  /\ Labelled(metadata_df)
  /\ ~get_data_shape_raises(files, metadata_df)
  /\ step' = [pc |-> "writing", op |-> "reshard", shard_size |-> shard_size,
              gen |-> reshard_generator(itershards(files, metadata_df), 1, EmptyTuple,
                                        <<>>, shard_size),
              rows |-> <<>>,
              old |-> Snapshot]
  /\ derived' = [NoDerived EXCEPT !.exists = TRUE]
  /\ UNCHANGED <<files, disk_meta, tasks, metadata_df, last, pre, it, tr>>

\* reshard on a dataset whose get_data_shape raises (no shard, or a first
\* shard without rows): the temporary directory is made, the generator
\* raises at its first step and the call ends
ReshardRaise(shard_size) ==
  /\ step.pc = "idle"
  /\ disk_meta.exists
  /\ get_data_shape_raises(files, metadata_df) = TRUE
  /\ step' = [pc |-> "crashed", op |-> "reshard", shard_size |-> shard_size,
              gen |-> <<>>, rows |-> <<>>, old |-> Snapshot]
  /\ derived' = [NoDerived EXCEPT !.exists = TRUE]
  /\ UNCHANGED <<files, disk_meta, tasks, metadata_df, last, pre, it, tr>>

\* create_dataset in the temporary directory: one shard of the generator
ReshardWrite ==
  /\ step.pc = "writing" /\ step.op = "reshard"
  /\ Len(step.rows) < Len(step.gen)
  /\ LET shard_num == Len(step.rows)
         sh == step.gen[shard_num + 1]
         r == write_data_to_disk(derived.files, shard_num, tasks, sh.X, sh.y, sh.w, sh.ids)
     IN /\ derived' = [derived EXCEPT !.files = r.files]
        /\ step' = [step EXCEPT !.rows = Append(@, r.row)]
  /\ UNCHANGED <<files, disk_meta, tasks, metadata_df, last, pre, it, tr>>

\* create_dataset in the temporary directory: the metadata is saved
ReshardSave ==
  /\ step.pc = "writing" /\ step.op = "reshard"
  /\ Len(step.rows) = Len(step.gen)
  /\ derived' = DiskDataset__init__(derived.files,
                                    [exists |-> TRUE, tasks |-> tasks,
                                     metadata_df |-> step.rows])
  /\ step' = [step EXCEPT !.pc = "created"]
  /\ UNCHANGED <<files, disk_meta, tasks, metadata_df, last, pre, it, tr>>

\* the removal of the dataset directory made while the temporary directory
\* is still being written
ReshardRmtreeEarly ==
  /\ step.pc \in {"writing", "created"}
  /\ step.op = "reshard"
  /\ files' = EmptyDir
  /\ disk_meta' = NoMeta
  /\ step' = [step EXCEPT !.pc = "removed"]
  /\ UNCHANGED <<tasks, metadata_df, derived, last, pre, it, tr>>

\* shutil.rmtree(self.data_dir)
ReshardRmtree ==
  /\ step.pc = "created"
  /\ files' = EmptyDir
  /\ disk_meta' = NoMeta
  /\ step' = [step EXCEPT !.pc = "removed"]
  /\ UNCHANGED <<tasks, metadata_df, derived, last, pre, it, tr>>

\* shutil.move(reshard_dir, self.data_dir)
ReshardMove ==
  /\ step.pc = "removed"
  /\ files' = derived.files
  /\ disk_meta' = derived.disk_meta
  /\ derived' = NoDerived
  /\ step' = [step EXCEPT !.pc = "moved"]
  /\ UNCHANGED <<tasks, metadata_df, last, pre, it, tr>>

\* self.metadata_df = resharded_dataset.metadata_df; self.save_to_disk()
ReshardFinish ==
  /\ step.pc = "moved"
  /\ metadata_df' = step.rows
  /\ disk_meta' = save_to_disk(tasks, metadata_df')
  /\ last' = [op |-> "reshard", shard_size |-> step.shard_size, raised |-> FALSE]
  /\ pre' = step.old
  /\ step' = NoStep
  /\ UNCHANGED <<files, tasks, derived, it, tr>>

\* sparse_shuffle, lines 426-443: every shard is loaded and the arrays are
\* permuted in memory
SparseShuffleBegin(permutation) ==
  /\ step.pc = "idle"
  /\ disk_meta.exists
  /\ Labelled(metadata_df)
  /\ ~sparse_shuffle_raises(files, metadata_df, permutation)
  /\ step' = [pc |-> "rewriting", op |-> "sparse_shuffle",
              all |-> sparse_shuffle_arrays(files, metadata_df, permutation),
              shard_size |-> get_shard_size(files, metadata_df),
              num_shards |-> Len(metadata_df), i |-> 0,
              old |-> Snapshot]
  /\ UNCHANGED <<files, disk_meta, tasks, metadata_df, derived, last, pre, it, tr>>

\* one pass of the write loop (lines 446-451): set_shard(i, ...)
SparseShuffleSetShard ==
  /\ step.pc = "rewriting"
  /\ step.i < step.num_shards
  /\ files' = sparse_shuffle_write(files, tasks, step.i, step.i + 1, step.shard_size,
                                   step.all)
  /\ step' = [step EXCEPT !.i = @ + 1]
  /\ UNCHANGED <<disk_meta, tasks, metadata_df, derived, last, pre, it, tr>>

SparseShuffleReturn ==
  /\ step.pc = "rewriting"
  /\ step.i = step.num_shards
  /\ last' = [op |-> "sparse_shuffle", raised |-> FALSE]
  /\ pre' = step.old
  /\ step' = NoStep
  /\ UNCHANGED <<files, disk_meta, tasks, metadata_df, derived, it, tr>>

\* the process stops between two steps of the call under way (a crash, or an
\* exception raised by a write); the directories stay as they are
Crash ==
  /\ step.pc \notin {"idle", "crashed"}
  /\ step' = [step EXCEPT !.pc = "crashed"]
  /\ UNCHANGED <<files, disk_meta, tasks, metadata_df, derived, last, pre, it, tr>>

NextSteps ==
  \/ \E src \in LabelledSources(PartialMaxShards, MaxRows) :
       step.pc = "idle" /\ CreateDataset(src)
  \/ \E shard_size \in 1..MaxRows : ReshardBegin(shard_size)
  \/ \E shard_size \in 1..MaxRows : ReshardRaise(shard_size)
  \/ ReshardWrite
  \/ ReshardSave
  \/ ReshardRmtree
  \/ ReshardMove
  \/ ReshardFinish
  \/ \E permutation \in Perms(SumSeq(ShardSizes)) : SparseShuffleBegin(permutation)
  \/ SparseShuffleSetShard
  \/ SparseShuffleReturn
  \/ Crash

SpecSteps == Init /\ [][NextSteps]_vars

\* the dataset directory holds the whole of the given dataset: its index,
\* and every file the index names, with the same content
HoldsDataset(ds) ==
  /\ disk_meta.exists
  /\ disk_meta = ds.disk_meta
  /\ \A k \in DOMAIN ds.disk_meta.metadata_df :
       \A ref \in Refs(ds.disk_meta.metadata_df[k]) :
          ref[2] # NullRef => FileOf(files, ref) = FileOf(ds.files, ref)

\* C17: at every point of a reshard call, a crash between two of its steps
\* included, the dataset directory holds the complete old dataset or the
\* complete resharded one.
C17_ReshardAtomic ==
  (step.pc # "idle" /\ step.op = "reshard") =>
     \/ HoldsDataset(step.old)
     \/ HoldsDataset(create_dataset(step.gen, EmptyDir, tasks))

\* C18: until sparse_shuffle has written its whole replacement no shard file
\* of the dataset directory is modified, so a failure part-way leaves the
\* content of the dataset as it was.
C18_SparseShuffleReplaces ==
  (step.pc # "idle" /\ step.op = "sparse_shuffle") =>
     /\ step.i < step.num_shards => files = step.old.files
     /\ step.pc = "crashed" =>
          AllRows(files, metadata_df) = AllRows(step.old.files, step.old.metadata_df)

\* ---------------------------------------------------------------- transform
\* The functions handed to transform, as the transformers build them
\* (lambda X, y, w: self.transform_array(X, y, w)): "X" rescales the
\* features, "y" rescales the labels, "w" replaces every nonzero weight.
\* Arithmetic on an absent array raises.
Fns == {"X", "y", "w"}

fn_raises(fn, X, y, w) ==
  \/ fn = "y" /\ y = None
  \/ fn = "w" /\ w = None

apply_fn(fn, X, y, w) ==
  CASE fn = "X" -> [X |-> [i \in 1..Len(X) |-> 2 * X[i] + 1], y |-> y, w |-> w]
    [] fn = "y" -> [X |-> X, y |-> [i \in 1..Len(y) |-> 2 * y[i] + 1], w |-> w]
    [] fn = "w" -> [X |-> X, y |-> y,
                    w |-> [i \in 1..Len(w) |-> IF w[i] # 0 THEN 7 ELSE 0]]

\* transform.generator reading shard number "basename" instead of the shard
\* at the position of the row
transform_generator_by_basename(dir, meta, fn) ==
  [k \in 1..Len(meta) |->
     LET shard_num == meta[k].basename
         sh == get_shard(dir, meta, shard_num)
         new == apply_fn(fn, sh.X, sh.y, sh.w)
     IN [X |-> new.X, y |-> new.y, w |-> new.w, ids |-> sh.ids]]

\* transform.generator (lines 347-351): one tuple per row of the index, in
\* index order; shard_num is the position of the row
transform_generator(dir, meta, fn) ==
  [k \in 1..Len(meta) |->
     LET shard_num == k - 1
         sh == get_shard(dir, meta, shard_num)
         new == apply_fn(fn, sh.X, sh.y, sh.w)
     IN [X |-> new.X, y |-> new.y, w |-> new.w, ids |-> sh.ids]]

\* the arguments fn is called with, call after call
transform_calls(dir, meta) ==
  [k \in 1..Len(meta) |->
     LET sh == get_shard(dir, meta, k - 1) IN [X |-> sh.X, y |-> sh.y, w |-> sh.w]]

transform_raises(dir, meta, fn) ==
  \E k \in 1..Len(meta) :
     LET sh == get_shard(dir, meta, k - 1) IN fn_raises(fn, sh.X, sh.y, sh.w)

\* transform(fn): a new dataset in a fresh directory, with the task list of
\* the source
transform(fn) ==
  /\ disk_meta.exists
  /\ IF transform_raises(files, metadata_df, fn)
     THEN /\ derived' = NoDerived
          /\ last' = [op |-> "transform", fn |-> fn, raised |-> TRUE]
     ELSE /\ derived' = create_dataset(transform_generator(files, metadata_df, fn),
                                       EmptyDir, tasks)
          /\ last' = [op |-> "transform", fn |-> fn, raised |-> FALSE,
                      calls |-> transform_calls(files, metadata_df)]
  /\ pre' = Snapshot
  /\ UNCHANGED <<files, disk_meta, tasks, metadata_df, it, tr, step>>

NextTransform ==
  \/ \E src \in AnySources(PartialMaxShards, MaxRows) : CreateDataset(src)
  \/ \E n \in Names : RemoveWeightsFile(n)
  \/ \E p \in Perms(Len(metadata_df)) : shuffle_shards(p)
  \/ \E fn \in Fns : transform(fn)

SpecTransform == Init /\ [][NextTransform]_vars

\* C19: transform(fn) returns a new dataset with as many shards as the
\* source, in the same order; shard i holds fn applied once to (X, y, w) of
\* source shard i and the ids of source shard i; the task list is the
\* source's; the files and the index of the source are not modified.
C19_TransformShardByShard ==
  (last.op = "transform" /\ ~last.raised) =>
     /\ derived.exists
     /\ Len(derived.metadata_df) = Len(metadata_df)
     /\ Len(last.calls) = Len(metadata_df)
     /\ \A i \in DOMAIN metadata_df :
          LET src == get_shard(files, metadata_df, i - 1)
              out == get_shard(derived.files, derived.metadata_df, i - 1)
              new == apply_fn(last.fn, src.X, src.y, src.w)
          IN /\ last.calls[i] = [X |-> src.X, y |-> src.y, w |-> src.w]
             /\ out.X = new.X /\ out.y = new.y /\ out.w = new.w
             /\ out.ids = src.ids
     /\ derived.tasks = tasks
     /\ derived.disk_meta.tasks = tasks
     /\ files = pre.files /\ metadata_df = pre.metadata_df
     /\ disk_meta = pre.disk_meta /\ tasks = pre.tasks

C19_Witness ==
  /\ last.op = "transform" /\ ~last.raised /\ last.fn = "y"
  /\ Len(metadata_df) = 2
  /\ metadata_df[1].basename = 1
  /\ Len(get_shard(files, metadata_df, 0).X) = 2
  /\ get_shard(derived.files, derived.metadata_df, 0).y
       # get_shard(files, metadata_df, 0).y
  /\ get_shard(derived.files, derived.metadata_df, 0).ids
       # get_shard(derived.files, derived.metadata_df, 1).ids

\* -------------------------------------------------------------------- merge
\* np.vstack turns an entry that is None into one row holding None
NoneObject == -7

atleast_2d(a) == IF a = None THEN <<NoneObject>> ELSE a

\* np.vstack / np.concatenate: raises ValueError on an empty list
vstack(arrays) ==
  IF arrays = <<>> THEN Raised
  ELSE Concat([k \in DOMAIN arrays |-> atleast_2d(arrays[k])])

\* the properties X, y, w and ids of a dataset handle
bulk_X(ds) ==
  vstack([k \in DOMAIN ds.metadata_df |-> itershards(ds.files, ds.metadata_df)[k].X])

bulk_y(ds) ==
  vstack([k \in DOMAIN ds.metadata_df |-> itershards(ds.files, ds.metadata_df)[k].y])

bulk_w(ds) ==
  vstack([k \in DOMAIN ds.metadata_df |-> itershards(ds.files, ds.metadata_df)[k].w])

bulk_ids(ds) ==
  IF len(ds.files, ds.metadata_df) = 0 THEN <<>>
  ELSE Concat([k \in DOMAIN ds.metadata_df |->
                 itershards(ds.files, ds.metadata_df)[k].ids])

\* merge.generator: one tuple per dataset of the list, in list order
merge_generator(datasets) ==
  [i \in DOMAIN datasets |->
     [X |-> bulk_X(datasets[i]), y |-> bulk_y(datasets[i]),
      w |-> bulk_w(datasets[i]), ids |-> bulk_ids(datasets[i])]]

merge_raises(datasets) ==
  \E i \in DOMAIN datasets :
     \/ bulk_X(datasets[i]) = Raised
     \/ bulk_y(datasets[i]) = Raised
     \/ bulk_w(datasets[i]) = Raised

\* the tuples handed to create_dataset for source dataset number j: its rows
\* carry tokens of their own
MergeSource(j, sizes, kinds) ==
  [i \in 1..Len(sizes) |->
     Tuple(1 + (j - 1) * MergeMaxRows + SumSeq(SubSeq(sizes, 1, i - 1)),
           sizes[i], kinds[i])]

InitMerge ==
  /\ files = EmptyDir
  /\ disk_meta = NoMeta
  /\ tasks = <<>>
  /\ metadata_df = <<>>
  /\ derived = NoDerived
  /\ last = [op |-> "init"]
  /\ pre = [files |-> EmptyDir, disk_meta |-> NoMeta, tasks |-> <<>>, metadata_df |-> <<>>]
  /\ it = IdleIt
  /\ tr = NoTr
  /\ \E n \in 0..MaxMerge :
       \E sizes \in [1..n -> SizeSeqs(PartialMaxShards, MergeMaxRows)] :
         \E kinds \in [1..n -> [1..PartialMaxShards -> {"full", "no_w", "unlabelled"}]] :
           /\ \A j \in 1..n : \A i \in 1..PartialMaxShards :
                i > Len(sizes[j]) => kinds[j][i] = "full"
           /\ step = [pc |-> "args",
                      datasets |-> [j \in 1..n |->
                         create_dataset(MergeSource(j, sizes[j], kinds[j]),
                                        EmptyDir, TaskList)]]

\* DiskDataset.merge(datasets): a static method, the merged dataset is
\* written into a fresh directory; create_dataset is called without tasks
merge ==
  /\ step.pc = "args"
  /\ IF merge_raises(step.datasets)
     THEN /\ derived' = NoDerived
          /\ last' = [op |-> "merge", datasets |-> step.datasets, raised |-> TRUE]
     ELSE /\ derived' = create_dataset(merge_generator(step.datasets), EmptyDir, <<>>)
          /\ last' = [op |-> "merge", datasets |-> step.datasets, raised |-> FALSE]
  /\ step' = NoStep
  /\ UNCHANGED <<files, disk_meta, tasks, metadata_df, pre, it, tr>>

NextMerge == merge

SpecMerge == InitMerge /\ [][NextMerge]_vars

\* a row of a merged shard; a label or weight row holding None reads as an
\* absent label or weight
MergedCell(a, i) ==
  IF a = None THEN -1
  ELSE IF i > Len(a) THEN -9
  ELSE IF a[i] = NoneObject THEN -1 ELSE a[i]

MergedRows(sh) ==
  [i \in 1..Len(sh.X) |->
     <<sh.X[i], MergedCell(sh.y, i), MergedCell(sh.w, i), MergedCell(sh.ids, i)>>]

\* C20: merge(datasets) returns a dataset with exactly one shard per source
\* dataset, in list order; shard i holds all rows of source dataset i, in
\* the order of its shards, with features, labels, weights and ids aligned.
\* This holds for any list of sources, including sources with zero rows.
C20_MergeOneShardPerSource ==
  last.op = "merge" =>
     /\ ~last.raised
     /\ derived.exists
     /\ Len(derived.metadata_df) = Len(last.datasets)
     /\ \A i \in DOMAIN last.datasets :
          LET out == get_shard(derived.files, derived.metadata_df, i - 1)
              src == last.datasets[i]
          IN /\ MergedRows(out) = AllRows(src.files, src.metadata_df)
             /\ out.y # None => Len(out.y) = Len(out.X)
             /\ out.w # None => Len(out.w) = Len(out.X)
             /\ Len(out.ids) = Len(out.X)

\* ------------------------------------------------- shape and size queries
\* get_data_shape (lines 169-178): the shape of the first datapoint of the
\* first shard; a datapoint is one token here, its shape the empty tuple
get_data_shape(dir, meta) ==
  IF get_data_shape_raises(dir, meta) THEN Failed
  ELSE [raised |-> FALSE, value |-> <<>>]

\* get_shard_size as the method (lines 180-186): the length of the labels
\* file of the first shard; joining the directory with an absent reference
\* raises
get_shard_size_method(dir, meta) ==
  IF Len(meta) = 0 THEN Failed
  ELSE IF meta[1].y = NullRef THEN Failed
  ELSE [raised |-> FALSE, value |-> get_shard_size(dir, meta)]

\* get_shape (lines 621-646): the row counts of X, y, w and ids summed over
\* the shards; y.shape and w.shape of an absent array raise
get_shape(dir, meta, t) ==
  LET n_tasks == Len(t)
      shards == itershards(dir, meta)
  IN IF get_data_shape(dir, meta) = Failed THEN Failed
     ELSE IF n_tasks > 0 /\ \E k \in DOMAIN shards :
                               shards[k].y = None \/ shards[k].w = None \/ shards[k].w = Raised
     THEN Failed
     ELSE [raised |-> FALSE,
           value |-> [X |-> <<SumSeq([k \in DOMAIN shards |-> Len(shards[k].X)])>>,
                      y |-> IF n_tasks > 0
                            THEN <<SumSeq([k \in DOMAIN shards |-> Len(shards[k].y)])>>
                            ELSE <<>>,
                      w |-> IF n_tasks > 0
                            THEN <<SumSeq([k \in DOMAIN shards |-> Len(shards[k].w)])>>
                            ELSE <<>>,
                      ids |-> <<SumSeq([k \in DOMAIN shards |-> Len(shards[k].ids)])>>]]

Queries == {"get_data_shape", "get_shard_size", "get_shape"}

Query(q) ==
  /\ disk_meta.exists
  /\ last' = [op |-> q,
              result |-> CASE q = "get_data_shape" -> get_data_shape(files, metadata_df)
                           [] q = "get_shard_size" -> get_shard_size_method(files, metadata_df)
                           [] q = "get_shape" -> get_shape(files, metadata_df, tasks)]
  /\ pre' = Snapshot
  /\ UNCHANGED <<files, disk_meta, tasks, metadata_df, derived, it, tr, step>>

NextQuery ==
  \/ \E src \in AnySources(PartialMaxShards, MaxRows) : CreateDataset(src)
  \/ \E n \in 0..MaxRows : \E kind \in Kinds :
       Len(metadata_df) < PartialMaxShards /\ add_shard(n, kind)
  \/ \E q \in Queries : Query(q)

SpecQuery == Init /\ [][NextQuery]_vars

\* C21: on a dataset with len() = 0, with no shard or with shards that all
\* have zero rows, get_data_shape, get_shard_size and get_shape each fail
\* with an error instead of returning a value.
C21_EmptyDatasetQueriesFail ==
  (last.op \in Queries /\ len(files, metadata_df) = 0) => last.result = Failed

\* ------------------------------------------- forward and reverse transforms
\* Floating-point values, kept exact: <<0, n, d>> is the quotient n/d in
\* lowest terms (d > 0), <<1, n, d>> is log(n/d), <<2, n, d>> is
\* exp(n/d) - 1, <<3, s, 0>> is s times the largest finite float (what
\* np.nan_to_num makes of an infinity), <<4, -1, 0>> is -inf and
\* <<5, 0, 0>> is nan.
Q(n) == <<0, n, 1>>

Abs(a) == IF a < 0 THEN -a ELSE a

Frac(n, d) == LET g == Gcd(Abs(n), d) IN <<0, n \div g, d \div g>>

QMatrix(m) == [i \in DOMAIN m |-> [j \in DOMAIN m[i] |-> Q(m[i][j])]]

\* np.nan_to_num((x - mean) / std)
normalize(x, mean, std) ==
  IF std # 0 THEN Frac(x[2] - mean * x[3], std * x[3])
  ELSE IF x[2] = mean * x[3] THEN Q(0)
  ELSE IF x[2] > mean * x[3] THEN <<3, 1, 0>>
  ELSE <<3, -1, 0>>

\* z * std + mean
denormalize(z, mean, std) ==
  IF z[1] = 3 THEN (IF std = 0 THEN Q(mean) ELSE z)
  ELSE Frac(z[2] * std + mean * z[3], z[3])

\* np.log(x + 1)
log1p(x) ==
  IF x[1] # 0 THEN <<5, 0, 0>>
  ELSE IF x[2] = 0 THEN Q(0)
  ELSE IF x[2] + x[3] = 0 THEN <<4, -1, 0>>
  ELSE IF x[2] + x[3] < 0 THEN <<5, 0, 0>>
  ELSE <<1, x[2] + x[3], x[3]>>

\* np.exp(z) - 1
expm1(z) ==
  CASE z[1] = 0 -> IF z[2] = 0 THEN Q(0) ELSE <<2, z[2], z[3]>>
    [] z[1] = 1 -> Frac(z[2] - z[3], z[3])
    [] z[1] = 4 -> Q(-1)
    [] OTHER -> <<5, 0, 0>>

\* features=None / tasks=None
AllColumns == {-1}

\* NormalizationTransformer.__init__ (lines 117-127) given the statistics
\* get_statistics returns: for y a standard deviation of 0 is replaced by 1
NormalizationTransformer(target, means, stds) ==
  [cls |-> "Normalization", transform_X |-> target = "X", transform_y |-> target = "y",
   means |-> means,
   stds |-> IF target = "y" THEN [j \in DOMAIN stds |-> IF stds[j] = 0 THEN 1 ELSE stds[j]]
            ELSE stds,
   columns |-> AllColumns]

\* LogTransformer.__init__ (lines 253-263): features or tasks is the set of
\* 0-based columns to transform
LogTransformer(target, columns) ==
  [cls |-> "Log", transform_X |-> target = "X", transform_y |-> target = "y",
   means |-> <<>>, stds |-> <<>>, columns |-> columns]

\* transform_array on the array the transformer targets: Normalization
\* (lines 138-144), Log (lines 265-288, where len(X[0]) raises on an array
\* without rows)
transform_array_raises(self, a) == self.cls = "Log" /\ Len(a) = 0

transform_array(self, a) ==
  IF self.cls = "Normalization"
  THEN [i \in DOMAIN a |-> [j \in DOMAIN a[i] |->
          normalize(a[i][j], self.means[j], self.stds[j])]]
  ELSE IF self.columns = AllColumns
  THEN [i \in DOMAIN a |-> [j \in DOMAIN a[i] |-> log1p(a[i][j])]]
  ELSE [i \in DOMAIN a |-> [j \in DOMAIN a[i] |->
          IF (j - 1) \in self.columns THEN log1p(a[i][j]) ELSE a[i][j]]]

\* untransform(z): Normalization (lines 146-153), Log (lines 290-314)
untransform_raises(self, z) == self.cls = "Log" /\ Len(z) = 0

untransform_array(self, z) ==
  IF self.cls = "Normalization"
  THEN [i \in DOMAIN z |-> [j \in DOMAIN z[i] |->
          denormalize(z[i][j], self.means[j], self.stds[j])]]
  ELSE IF self.columns = AllColumns
  THEN [i \in DOMAIN z |-> [j \in DOMAIN z[i] |-> expm1(z[i][j])]]
  ELSE [i \in DOMAIN z |-> [j \in DOMAIN z[i] |->
          IF (j - 1) \in self.columns THEN expm1(z[i][j]) ELSE z[i][j]]]

RtColumns == 2
RtValues == {0, 1, 3}
RtMeans == {0, 1}
RtStds == {0, 2}

InitRoundTrip ==
  /\ NoDataset
  /\ \E target \in {"X", "y"}, n \in 0..MaxRtRows :
       \E D \in Matrices(n, RtColumns, RtValues) :
          \/ \E means \in [1..RtColumns -> RtMeans], stds \in [1..RtColumns -> RtStds] :
               tr = [pc |-> "rt_given", self |-> NormalizationTransformer(target, means, stds),
                     D |-> QMatrix(D)]
          \/ \E columns \in {AllColumns} \cup SUBSET (0..(RtColumns - 1)) :
               tr = [pc |-> "rt_given", self |-> LogTransformer(target, columns),
                     D |-> QMatrix(D)]

\* T.transform_array(X, y, w), on the array T targets
RoundTripForward ==
  /\ tr.pc = "rt_given"
  /\ IF transform_array_raises(tr.self, tr.D)
     THEN tr' = [pc |-> "rt_raised", self |-> tr.self, D |-> tr.D]
     ELSE tr' = [pc |-> "rt_forward", self |-> tr.self, D |-> tr.D,
                 z |-> transform_array(tr.self, tr.D)]
  /\ UNCHANGED <<files, disk_meta, tasks, metadata_df, derived, last, pre, it, step>>

\* T.untransform(z) on the transformed array
RoundTripReverse ==
  /\ tr.pc = "rt_forward"
  /\ IF untransform_raises(tr.self, tr.z)
     THEN tr' = [pc |-> "rt_raised", self |-> tr.self, D |-> tr.D]
     ELSE tr' = [pc |-> "rt_done", self |-> tr.self, D |-> tr.D, z |-> tr.z,
                 out |-> untransform_array(tr.self, tr.z)]
  /\ UNCHANGED <<files, disk_meta, tasks, metadata_df, derived, last, pre, it, step>>

NextRoundTrip == RoundTripForward \/ RoundTripReverse

SpecRoundTrip == InitRoundTrip /\ [][NextRoundTrip]_vars

Unselected(self) ==
  IF self.cls = "Log" /\ self.columns # AllColumns
  THEN {j \in 1..RtColumns : (j - 1) \notin self.columns}
  ELSE {}

\* C22: for Normalization on labels or on features, columns with a stored
\* standard deviation of 0 included, and for Logarithm on all columns or on
\* a selected subset, untransform(transform_array(D)) reproduces the values
\* of D; the columns Logarithm does not select are unchanged by the forward
\* and by the reverse step.
C22_RoundTrip ==
  /\ tr.pc # "rt_raised"
  /\ tr.pc \in {"rt_forward", "rt_done"} =>
       \A i \in DOMAIN tr.D : \A j \in Unselected(tr.self) : tr.z[i][j] = tr.D[i][j]
  /\ tr.pc = "rt_done" => tr.out = tr.D

\* ------------------------------------------- replacing and adding a shard
\* C23: after any sequence of create_dataset, add_shard, shuffle_shards,
\* shuffle_each_shard and reshard, set_shard(i, X, y, w, ids) with
\* 0 <= i < number of shards makes get_shard(i) return exactly
\* (X, y, w, ids) and leaves every other shard position as it was.
C23_SetShardReplaces ==
  (last.op = "set_shard" /\ last.shard_num < Len(metadata_df)) =>
     /\ get_shard(files, metadata_df, last.shard_num) = last.shard
     /\ \A k \in DOMAIN metadata_df :
          k # last.shard_num + 1 =>
             get_shard(files, metadata_df, k - 1)
               = get_shard(pre.files, pre.metadata_df, k - 1)

Basenames(meta) == {meta[k].basename : k \in DOMAIN meta}

\* C24: after any sequence of create_dataset, add_shard, set_shard,
\* shuffle_shards, shuffle_each_shard and reshard the basenames of the index
\* are pairwise distinct, so add_shard overwrites no file of an existing
\* shard: the new shard is the last descriptor, every earlier shard keeps
\* its position and content, and len() grows by the number of rows added.
C24_AddShardOverwritesNothing ==
  /\ \A j, k \in DOMAIN metadata_df :
       j # k => metadata_df[j].basename # metadata_df[k].basename
  /\ last.op = "add_shard" =>
       LET n == Len(pre.metadata_df)
       IN /\ Len(metadata_df) = n + 1
          /\ metadata_df[n + 1].basename \notin Basenames(pre.metadata_df)
          /\ get_shard(files, metadata_df, n) = last.shard
          /\ \A k \in 1..n :
               /\ metadata_df[k] = pre.metadata_df[k]
               /\ get_shard(files, metadata_df, k - 1)
                    = get_shard(pre.files, pre.metadata_df, k - 1)
          /\ len(files, metadata_df)
               = len(pre.files, pre.metadata_df) + Len(last.shard.X)

C24_Witness ==
  /\ last.op = "add_shard"
  /\ Len(metadata_df) = 2
  /\ Len(last.shard.X) = 1
  /\ metadata_df[1].basename = 0
  /\ Len(get_shard(files, metadata_df, 0).X) = 1
  /\ files[1].y # NoFile /\ metadata_df[2].y = NullRef

\* ------------------------------------------------- the sizes reshard makes
\* the row count of the shard at position k, when its four arrays agree
ShardLen(k) ==
  LET sh == get_shard(files, metadata_df, k - 1)
  IN IF Len(sh.y) = Len(sh.X) /\ Len(sh.w) = Len(sh.X) /\ Len(sh.ids) = Len(sh.X)
     THEN Len(sh.X) ELSE -1

\* C25: after reshard(s) succeeds on a dataset of N >= 1 rows, with s >= 1,
\* the dataset has exactly ceil(N / s) shards; every shard but the last has
\* exactly s rows and the last has between 1 and s rows, so no shard exceeds
\* s rows and none is empty.
C25_ReshardSizes ==
  (last.op = "reshard" /\ ~last.raised /\ len(pre.files, pre.metadata_df) >= 1) =>
     LET N == len(pre.files, pre.metadata_df)
         s == last.shard_size
         n == Len(metadata_df)
     IN /\ n = CeilDiv(N, s)
        /\ \A k \in 1..(n - 1) : ShardLen(k) = s
        /\ ShardLen(n) >= 1 /\ ShardLen(n) <= s

C25_Witness ==
  /\ last.op = "reshard" /\ ~last.raised /\ last.shard_size = 2
  /\ len(pre.files, pre.metadata_df) = 3
  /\ Len(pre.metadata_df) = 3
  /\ \E k \in DOMAIN pre.metadata_df : Len(pre.files[pre.metadata_df[k].X].X) = 0
  /\ Len(metadata_df) = 2 /\ ShardLen(1) = 2 /\ ShardLen(2) = 1

\* ------------------------------------------- the copies a reshard call keeps
\* a directory with its saved index holds every row of the dataset the call
\* started from, in order
CompleteCopy(dir, dm, old) ==
  /\ dm.exists
  /\ AllRows(dir, dm.metadata_df) = AllRows(old.files, old.metadata_df)

\* C26: at every point of a reshard call, a failure while the source shards
\* are streamed and a crash between the removal of the old directory and the
\* move of the new one included, a complete copy of all rows of the dataset
\* is on disk, in the dataset directory or in the completely written
\* temporary directory; the old directory is removed only once the
\* replacement and its metadata are completely written.
C26_ReshardKeepsACopy ==
  (step.pc # "idle" /\ step.op = "reshard") =>
     /\ \/ CompleteCopy(files, disk_meta, step.old)
        \/ CompleteCopy(derived.files, derived.disk_meta, step.old)
     /\ ~HoldsDataset(step.old) =>
          \/ CompleteCopy(derived.files, derived.disk_meta, step.old)
          \/ /\ ~derived.exists
             /\ HoldsDataset(create_dataset(step.gen, EmptyDir, tasks))

C26_Witness ==
  /\ step.pc = "crashed" /\ step.op = "reshard"
  /\ ~disk_meta.exists /\ files = EmptyDir
  /\ Len(step.old.metadata_df) = 2
  /\ Len(derived.metadata_df) = 3
  /\ Len(AllRows(derived.files, derived.metadata_df)) = 3

\* ------------------------------------------------- the batches of one pass
\* C27: with pad_batches=False and batch_size b >= 1 every batch yielded by
\* iterbatches has between 1 and b rows, all of them rows of one shard, and
\* a full pass yields as many batches as the sum, over the shards that have
\* rows, of ceil(n_i / b), n_i being the row count of the shard.
C27_BatchesWithinShards ==
  (Running /\ ~it.pad_batches /\ it.batch_size >= 1) =>
     /\ it.nbatch > 0 =>
          /\ Len(it.batch.X) >= 1 /\ Len(it.batch.X) <= it.batch_size
          /\ \E k \in DOMAIN metadata_df :
               Range(RowsOf(it.batch)) \subseteq Range(ShardRows(files, metadata_df)[k])
     /\ it.pc = "done" =>
          it.nbatch = SumSeq([k \in DOMAIN metadata_df |->
                                CeilDiv(Len(ShardRows(files, metadata_df)[k]),
                                        it.batch_size)])

C27_Witness ==
  /\ it.pc = "done" /\ ~it.pad_batches /\ ~it.deterministic /\ it.batch_size = 2
  /\ Len(metadata_df) = 2
  /\ Len(ShardRows(files, metadata_df)[1]) = 3
  /\ Len(ShardRows(files, metadata_df)[2]) = 2
  /\ it.nbatch = 3
  /\ it.shard_perm = <<2, 1>>

\* --------------------------------------------------- itershards iterators
\* the generator objects made so far
Gens == IF it.pc = "gens" THEN it.gens ELSE <<>>

\* itershards() handing out one shared generator: a later call continues
\* where the earlier one stands
itershards_call_shared ==
  /\ disk_meta.exists
  /\ it.pc \in {"idle", "gens"}
  /\ Len(Gens) < MaxIters
  /\ it' = [pc |-> "gens",
            gens |-> Append(Gens, IF Gens = <<>>
                                  THEN [k |-> 0, done |-> FALSE, yielded |-> <<>>]
                                  ELSE [Gens[Len(Gens)] EXCEPT !.yielded = <<>>])]
  /\ UNCHANGED <<files, disk_meta, tasks, metadata_df, derived, last, pre, tr, step>>

\* itershards(): return iterate(self), a new generator object that has not
\* started
itershards_call ==
  /\ disk_meta.exists
  /\ it.pc \in {"idle", "gens"}
  /\ Len(Gens) < MaxIters
  /\ it' = [pc |-> "gens",
            gens |-> Append(Gens, [k |-> 0, done |-> FALSE, yielded |-> <<>>])]
  /\ UNCHANGED <<files, disk_meta, tasks, metadata_df, derived, last, pre, tr, step>>

\* next() on generator g: one pass of the loop over metadata_df.iterrows()
\* (lines 211-229), or the end of the loop
itershards_next(g) ==
  /\ it.pc = "gens"
  /\ g \in DOMAIN it.gens
  /\ ~it.gens[g].done
  /\ LET gen == it.gens[g]
     IN IF gen.k < Len(metadata_df)
        THEN it' = [it EXCEPT !.gens[g] =
                      [k |-> gen.k + 1, done |-> FALSE,
                       yielded |-> Append(gen.yielded,
                                          iterate_row(files, metadata_df[gen.k + 1]))]]
        ELSE it' = [it EXCEPT !.gens[g].done = TRUE]
  /\ UNCHANGED <<files, disk_meta, tasks, metadata_df, derived, last, pre, tr, step>>

NextShards ==
  \/ \E src \in AnySources(PartialMaxShards, MaxRows) : CreateDataset(src)
  \/ itershards_call
  \/ \E g \in 1..MaxIters : itershards_next(g)

SpecShards == Init /\ [][NextShards]_vars

\* get_shard(0), get_shard(1), ...
AllShards == [i \in DOMAIN metadata_df |-> get_shard(files, metadata_df, i - 1)]

\* C28: every call of itershards() returns a fresh iterator that yields each
\* shard once, in index order, the sequence get_shard(0), get_shard(1), ...;
\* iterators of separate calls advance in any interleaving without changing
\* what the other yields, and a partly consumed or exhausted iterator does
\* not keep a later call from yielding the whole sequence.
C28_ItershardsRestartable ==
  \A g \in DOMAIN Gens :
     /\ Len(Gens[g].yielded) = Gens[g].k
     /\ Gens[g].yielded = SubSeq(AllShards, 1, Gens[g].k)
     /\ Gens[g].done => Gens[g].yielded = AllShards

C28_Witness ==
  /\ Len(Gens) = 2
  /\ Len(metadata_df) = 2
  /\ Gens[1].k = 1 /\ ~Gens[1].done
  /\ Gens[2].done
  /\ Gens[2].yielded[1] # Gens[2].yielded[2]

\* ------------------------------------------------------------ IRVTransformer
\* Fingerprints are rows of bits with at least one bit set.
Fingerprints == {<<0, 1>>, <<1, 0>>, <<1, 1>>}

\* one entry of the similarity matrix of X_transform (lines 703-705): the
\* bits set in both rows over the bits set in either
similarity_of(target, reference) ==
  LET n_features == Len(target)
      both == SumSeq([j \in 1..n_features |-> target[j] * reference[j]])
      neither == SumSeq([j \in 1..n_features |-> (1 - target[j]) * (1 - reference[j])])
  IN Quotient(both, n_features - neither)

Greater(x, y) == x[1] * y[2] > y[1] * x[2]

\* tf.nn.top_k(values, k, sorted=True) over the entries "among": the indices
\* of the k largest entries, largest first, the lower index first among equals
RECURSIVE top_k(_, _, _, _)
top_k(values, among, chosen, k) ==
  IF Len(chosen) = k \/ among = {} THEN chosen
  ELSE LET best == CHOOSE i \in among :
                     \A j \in among :
                        \/ Greater(values[i], values[j])
                        \/ (values[i] = values[j] /\ i <= j)
       IN top_k(values, among \ {best}, Append(chosen, best), k)

\* similarity * np.sign(w), for one target row and one task
similarity_xs(similarity, w) ==
  [r \in DOMAIN similarity |->
     IF w[r] = 0 THEN Zero
     ELSE IF w[r] > 0 THEN similarity[r]
     ELSE <<-similarity[r][1], similarity[r][2]>>]

\* the reference rows realize keeps for one target row (lines 651-682): the
\* top K+1 of similarity_xs, the first dropped when its value is 1, else the
\* last
realize_rows(similarity, y, w, K) ==
  LET xs == similarity_xs(similarity, w)
      indice == top_k(xs, DOMAIN xs, <<>>, K + 1)
  IN IF xs[indice[1]] = One THEN SubSeq(indice, 2, K + 1) ELSE SubSeq(indice, 1, K)

\* realize for one target row: K similarity values, then the K labels
realize(similarity, y, w, K) ==
  LET xs == similarity_xs(similarity, w)
      rows == realize_rows(similarity, y, w, K)
  IN [k \in 1..Len(rows) |-> xs[rows[k]]] \o [k \in 1..Len(rows) |-> <<y[rows[k]], 1>>]

\* X_transform (lines 685-712): per target row, the features of every task
\* side by side
X_transform(self, X_target) ==
  [t \in DOMAIN X_target |->
     Concat([i \in 1..self.n_tasks |->
               realize([r \in DOMAIN self.X |-> similarity_of(X_target[t], self.X[r])],
                       Column(self.y, i), Column(self.w, i), self.K)])]

InitIrv ==
  /\ NoDataset
  /\ \E n \in 2..MaxRefRows, n_tasks \in TaskCounts, K \in 1..(MaxRefRows - 1) :
       /\ K + 1 <= n
       /\ n_tasks > 1 => n = 2
       /\ \E X \in [1..n -> Fingerprints], y \in Matrices(n, n_tasks, {0, 1}),
             w \in Matrices(n, n_tasks, {0, 1}), target \in Fingerprints :
            tr = [pc |-> "irv_given",
                  self |-> [X |-> X, y |-> y, w |-> w, K |-> K, n_tasks |-> n_tasks],
                  X_target |-> <<target>>]

\* IRVTransformer.X_transform(X_target)
IrvTransform ==
  /\ tr.pc = "irv_given"
  /\ tr' = [tr EXCEPT !.pc = "irv_done"] @@ [out |-> X_transform(tr.self, tr.X_target)]
  /\ UNCHANGED <<files, disk_meta, tasks, metadata_df, derived, last, pre, it, step>>

NextIrv == IrvTransform

SpecIrv == InitIrv /\ [][NextIrv]_vars

\* the reference rows with nonzero weight for task i
Weighted(self, i) == {r \in DOMAIN self.X : self.w[r][i] # 0}

\* what the statement asks of one target row and one task: the K+1 most
\* similar rows among the weighted ones, the first dropped when its
\* similarity is 1, else the last
ExpectedFeature(self, target, i) ==
  LET sim == [r \in DOMAIN self.X |-> similarity_of(target, self.X[r])]
      top == top_k(sim, Weighted(self, i), <<>>, self.K + 1)
      rows == IF sim[top[1]] = One THEN SubSeq(top, 2, self.K + 1)
              ELSE SubSeq(top, 1, self.K)
  IN [k \in 1..Len(rows) |-> sim[rows[k]]]
       \o [k \in 1..Len(rows) |-> <<self.y[rows[k]][i], 1>>]

\* C29: for every target row and every task the IRV transform emits exactly
\* K similarities followed by K neighbour labels, taken from the K+1 most
\* similar reference rows among those with nonzero weight for the task (the
\* top one dropped when its similarity is 1, else the (K+1)-th); no reference
\* row whose weight for the task is zero contributes a neighbour label.
C29_IrvNeighbours ==
  tr.pc = "irv_done" =>
     \A t \in DOMAIN tr.X_target : \A i \in 1..tr.self.n_tasks :
        LET sim == [r \in DOMAIN tr.self.X |->
                      similarity_of(tr.X_target[t], tr.self.X[r])]
            rows == realize_rows(sim, Column(tr.self.y, i), Column(tr.self.w, i),
                                 tr.self.K)
            feature == SubSeq(tr.out[t], 2 * tr.self.K * (i - 1) + 1,
                              2 * tr.self.K * i)
        IN /\ Len(tr.out[t]) = 2 * tr.self.K * tr.self.n_tasks
           /\ Range(rows) \subseteq Weighted(tr.self, i)
           /\ Cardinality(Weighted(tr.self, i)) >= tr.self.K + 1
           /\ feature = ExpectedFeature(tr.self, tr.X_target[t], i)

\* ------------------------------------------- the task list of derived datasets
\* subset.generator (lines 409-414): the shards whose number is in shard_nums,
\* in index order
subset_generator(dir, meta, shard_nums) ==
  LET kept == SelectSeq([k \in 1..Len(meta) |-> k - 1], LAMBDA n : n \in shard_nums)
  IN [k \in 1..Len(kept) |-> get_shard(dir, meta, kept[k])]

\* subset(shard_nums): create_dataset with the task list of the source
subset(shard_nums) ==
  /\ disk_meta.exists
  /\ derived' = create_dataset(subset_generator(files, metadata_df, shard_nums),
                               EmptyDir, tasks)
  /\ last' = [op |-> "subset", shard_nums |-> shard_nums]
  /\ pre' = Snapshot
  /\ UNCHANGED <<files, disk_meta, tasks, metadata_df, it, tr, step>>

\* DiskDataset.merge([self, ..., self]): n handles on the live dataset
merge_handles(n) ==
  /\ disk_meta.exists
  /\ LET datasets == [j \in 1..n |-> DiskDataset__init__(files, disk_meta)]
     IN IF merge_raises(datasets)
        THEN /\ derived' = NoDerived
             /\ last' = [op |-> "merge", datasets |-> datasets, raised |-> TRUE]
        ELSE /\ derived' = create_dataset(merge_generator(datasets), EmptyDir, <<>>)
             /\ last' = [op |-> "merge", datasets |-> datasets, raised |-> FALSE]
  /\ pre' = Snapshot
  /\ UNCHANGED <<files, disk_meta, tasks, metadata_df, it, tr, step>>

\* the checks of Transformer.transform (lines 89-93) for a transformer of
\* labels or weights: get_shape, then ValueError "values are not present"
\* when the y or w shape is the empty tuple
transform_check(dir, meta, t) ==
  LET shape == get_shape(dir, meta, t)
  IN IF shape = Failed THEN "raised"
     ELSE IF shape.value.y = <<>> \/ shape.value.w = <<>> THEN "not present"
     ELSE "ok"

NextDerive ==
  \/ \E src \in AnySources(PartialMaxShards, MaxRows) : CreateDataset(src)
  \/ \E index_set \in SUBSET (0..(len(files, metadata_df) - 1)) : select(index_set)
  \/ \E shard_nums \in SUBSET (0..(Len(metadata_df) - 1)) : subset(shard_nums)
  \/ \E fn \in Fns : transform(fn)
  \/ \E n \in 1..MaxMerge : merge_handles(n)

SpecDerive == Init /\ [][NextDerive]_vars

\* C30: select (with an empty index set too), subset, transform and merge of
\* sources that share one task list return a dataset whose task list is the
\* task list of the source, so a transform of labels or weights that can be
\* applied to the source does not fail on the result with the "values are
\* not present" error.
C30_DerivedKeepsTasks ==
  (last.op \in {"select", "subset", "transform", "merge"} /\ derived.exists) =>
     /\ derived.tasks = tasks
     /\ transform_check(files, metadata_df, tasks) = "ok" =>
          transform_check(derived.files, derived.metadata_df, derived.tasks)
             # "not present"

====
